---- MODULE Spec2Model ----
(***************************************************************************)
(* Model of ssl-manager's acquisition orchestrator                         *)
(* (src/internal/core/manager.go): the batch runner Manager.Run, the       *)
(* per-domain sequence Manager.ProcessDomain, the resume entry point       *)
(* Manager.ContinueOrder and the DNS-01 polling loop                       *)
(* Manager.waitForDNSValidation.  Provider, storage, validator and         *)
(* executor calls are the environment: each call returns any outcome its   *)
(* contract allows.  A behaviour is one call of Run (a batch), of          *)
(* ProcessDomain (one domain) or of ContinueOrder (a resume), or, in mode  *)
(* "registry", one process that loads its configuration (config.Load) and  *)
(* asks the provider Factory (src/internal/core/factory.go) for providers. *)
(* The renewal decision is Validator.NeedRenew                             *)
(* (src/internal/core/validator.go) applied to what the online probe       *)
(* returned.  The remaining modes apply one component on its own: the     *)
(* domain-name functions of src/internal/domain/parser.go (mode           *)
(* "parser"), the vendors' status mappings (mode "status"), the file      *)
(* storage FileStorage (mode "storage") and a DNS adapter's AddRecord on  *)
(* a zone (mode "zone").                                                  *)
(***************************************************************************)
EXTENDS Integers, Sequences, FiniteSets, TLC

\* ----------------------------------------------------------------- bounds
\* Number of configured domains of a batch run.
NumDomains == 3
\* Number of loop iterations whose poll and DNS outcome are kept in hist.
MaxHist == 4
\* Number of provider requests (a certificate provider and a DNS provider
\* for one domain or one resume) made of the Factory in one process.
MaxRequests == 3
\* Number of records a zone holds at most (mode "zone").
MaxRecords == 2
\* Number of SaveCertificate calls made of one FileStorage (mode "storage").
MaxSaves == 2
\* Number of issued certificates a vendor lists at most (mode "find").
MaxCerts == 2

\* ------------------------------------------------------ program constants
\* manager.go:166  maxRetries := 60
maxRetries == 60
\* manager.go:179  if consecutiveErrors >= 3
MaxConsecutiveErrors == 3
\* manager.go:183, 194, 207  time.Sleep(10 * time.Second)
SleepRetry == 10
\* manager.go:215, 219  time.Sleep(20 * time.Second)
SleepWait == 20
\* manager.go:230  time.Sleep(15 * time.Second)
SleepUnknown == 15

\* ------------------------------------------------------------ input sets
\* config.Domains, in configuration order (domain k is the k-th entry).
Domains == [k \in 1..NumDomains |-> k]
\* Order identifiers: the order the vendor creates for domain k, and the
\* identifiers a resume may be started with.
OrderOf(k) == <<"order", k>>
OrderIds == {OrderOf(1)}
NoOrder == <<>>
\* Challenge labels and values a CA may return; "" is "not yet present".
Labels == {"", "A", "B"}
Values == {"", "v1", "v2"}
\* Stands for every status string outside the four canonical ones.
OtherStatuses == {"unknown"}

\* provider.CertStatus as returned by GetCertificateStatus, with the error;
\* panic marks a call that does not return.
PollErr ==
    [err |-> TRUE, panic |-> FALSE, Status |-> "", RecordDomain |-> "",
     RecordType |-> "", RecordValue |-> ""]
PollOk(s, d, t, v) ==
    [err |-> FALSE, panic |-> FALSE, Status |-> s, RecordDomain |-> d,
     RecordType |-> t, RecordValue |-> v]
\* part_000:87-92: the adapter dereferences the nil Body of the response
\* its third failed attempt handed back; the call panics.
PollPanic ==
    [err |-> FALSE, panic |-> TRUE, Status |-> "", RecordDomain |-> "",
     RecordType |-> "", RecordValue |-> ""]
PollResults ==
    {PollErr, PollPanic}
    \cup {PollOk("domain_verify", d, "TXT", v) : d \in Labels, v \in Values}
    \cup {PollOk(s, "", "", "") :
            s \in {"process", "certificate", "failed"} \cup OtherStatuses}
NoPoll == PollOk("", "", "", "")

VARIABLES
    mode,               \* entry point: "run", "domain" or "resume" of the
                        \* orchestrator, or the component applied on its
                        \* own: "registry" (the Factory), "parser", "zone",
                        \* "status" or "storage"
    pc,                 \* position of the single orchestrator thread
    cancelled,          \* ctx.Done() is closed
    cancelAt,           \* observation: <<n>> once ctx is cancelled, n the
                        \* number of domains handed to ProcessDomain so far
    idx,                \* Run: index of the domain being processed
    orderID,            \* order being validated (NoOrder when none)
    i,                  \* waitForDNSValidation: loop counter
    consecutiveErrors,  \* waitForDNSValidation: local
    dnsRecordAdded,     \* waitForDNSValidation: local
    lastRecordDomain,   \* waitForDNSValidation: local
    certDownloaded,     \* ProcessDomain: local
    waitErr,            \* value returned by waitForDNSValidation
    retErr,             \* value returned by ProcessDomain / ContinueOrder
    runErr,             \* value returned by Run ("none" while running)
    \* ---- observation of the calls made (no effect on the program)
    lastPoll,           \* result of the poll of the current iteration
    dnsAct,             \* DNS action of the current iteration
    dnsCall,            \* DNS provider call of the current iteration
    sleepDur,           \* seconds of the backoff in progress (0: none)
    failsSinceOk,       \* failed polls since the last successful one
    pollCalls,          \* GetCertificateStatus calls made by this loop
    okLabel,            \* label of the loop's last successful AddRecord
    okValue,            \* its record type and record value
    pollKinds,          \* what the polls of this loop returned so far
    hist,               \* log of the first MaxHist polls of the first order
    histOn,             \* hist is still complete
    calls,              \* calls made outside the loop in this domain's run
    processed,          \* Run: domains handed to ProcessDomain, in order
    outcomes,           \* Run: "ok"/"fail" per processed domain
    needRenewObs,       \* the NeedRenew call just made, with its result
    hookObs,            \* the RunPostCommand call made, with its command
    \* ---- configuration and Factory (mode "registry")
    regPc,              \* "load", "ready", "exit" (Load failed)
    entry,              \* "fresh" (Run) or "resume" (ContinueOrder)
    providers,          \* config.Providers: per vendor "nil" (absent),
                        \* "incomplete" or "complete" credentials
    domainProviders,    \* provider names the configured domains select
                        \* ({}: no domain is configured)
    cfgRenewDays,       \* renew_days of the configured domains
    argProvider,        \* provider name on the resume command line
    certProviders,      \* Factory.certProviders: name -> instance
    dnsProviders,       \* Factory.dnsProviders: name -> instance
    worker,             \* the caller's position in its request
    requests,           \* provider requests started so far
    \* ---- observation of the Factory (no effect on the program)
    built,              \* successful constructor calls per (kind, name)
    attempted,          \* (kind, name) whose constructor was invoked
    returned,           \* (kind, name, instance) returned to a caller
    called,             \* (kind, name) on which a provider call was made
    \* ---- domain-name functions (mode "parser")
    mainObs,            \* the ExtractMainDomain call just made
    subObs,             \* the ExtractSubDomain call just made
    matchObs,           \* the MatchDomain call just made
    \* ---- a DNS adapter and its zone (mode "zone")
    adapter,            \* vendor whose DNSProvider is used
    zone,               \* records of the zone, in the order of creation
    addObs,             \* the AddRecord call just made
    \* ---- a vendor's certificate adapter (mode "status")
    statusObs,          \* the GetCertificateStatus call just made
    \* ---- the file storage (mode "storage")
    files,              \* per path: the file there and the save that wrote it
    saves,              \* SaveCertificate calls made so far
    saveObs,            \* the SaveCertificate call just made
    \* ---- a vendor's FindValidCertificate (mode "find")
    findObs             \* the FindValidCertificate call just made

orchVars ==
    <<mode, pc, cancelled, cancelAt, idx, orderID, i, consecutiveErrors, dnsRecordAdded,
      lastRecordDomain, certDownloaded, waitErr, retErr, runErr, lastPoll,
      dnsAct, dnsCall, sleepDur, failsSinceOk, pollCalls, okLabel, okValue, pollKinds,
      hist, histOn, calls, processed, outcomes, needRenewObs,
      hookObs>>

regVars ==
    <<regPc, entry, providers, domainProviders, cfgRenewDays, argProvider,
      certProviders, dnsProviders, worker, requests, built, attempted,
      returned, called>>

parserVars == <<mainObs, subObs, matchObs>>

zoneVars == <<adapter, zone, addObs>>

statusVars == <<statusObs>>

storageVars == <<files, saves, saveObs>>

findVars == <<findObs>>

libVars == <<parserVars, zoneVars, statusVars, storageVars, findVars>>

vars == <<orchVars, regVars, libVars>>

NoErr == [kind |-> "none", orderId |-> NoOrder]
Err(k) == [kind |-> k, orderId |-> NoOrder]
Nil == Err("nil")

LoopPcs == {"loop_head", "loop_poll", "loop_sleep"}

\* ------------------------------------------------ waitForDNSValidation
\* manager.go:169  for i := 0; i < maxRetries; i++
LoopCond(n) == n < maxRetries

\* Variant of NextIteration: the counter does not advance.
NextIteration_Stuck(n) == n

\* manager.go:169  i++
NextIteration(n) == n + 1

\* Variant of TooManyErrors: the abort comes one failure late.
TooManyErrors_Late(n) == n > MaxConsecutiveErrors

\* manager.go:179  if consecutiveErrors >= 3
TooManyErrors(n) == n >= MaxConsecutiveErrors

\* Variant of HasChallenge: only the label is looked at.
HasChallenge_LabelOnly(r) == r.RecordDomain # ""

\* manager.go:192  if status.RecordDomain == "" || status.RecordValue == ""
HasChallenge(r) == ~(r.RecordDomain = "" \/ r.RecordValue = "")

\* Variant of NeedAddRecord: a changed label is not noticed.
NeedAddRecord_NoLabelCheck(added, last, r) == ~added

\* manager.go:204  if !dnsRecordAdded || lastRecordDomain != status.RecordDomain
NeedAddRecord(added, last, r) == ~added \/ last # r.RecordDomain

\* manager.go:234  fmt.Errorf("等待超时...订单ID: %s", orderID)
TimeoutError(o) == [kind |-> "timeout", orderId |-> o]

\* manager.go:171-172  case <-ctx.Done(): return ctx.Err()
CancelObserved(c) == c

\* Outcome of one pass through the loop body: the locals afterwards, the
\* returned error ("none": the loop goes on after sleep seconds) and the
\* DNS action taken.
Step(cErr, added, last, ret, sleep, act) ==
    [cErr |-> cErr, added |-> added, last |-> last, ret |-> ret,
     sleep |-> sleep, act |-> act]

\* manager.go:177-185: GetCertificateStatus failed.
OnPollError(cErr, added, last) ==
    IF TooManyErrors(cErr + 1)
    THEN Step(cErr + 1, added, last, "poll", 0, "none")
    ELSE Step(cErr + 1, added, last, "none", SleepRetry, "none")

\* Variant of ErrorsAfterSuccess: a successful poll keeps the counter.
ErrorsAfterSuccess_Keep(n) == n

\* manager.go:186  consecutiveErrors = 0
ErrorsAfterSuccess(n) == 0

\* manager.go:192-196: domain_verify without challenge data.
OnNoChallenge(added, last) ==
    Step(0, added, last, "none", SleepRetry, "none")

\* Variant of OnAddRecordOk: the write is not remembered.
OnAddRecordOk_Forget(added, last, r) ==
    Step(0, added, last, "none", SleepWait, "upsert_ok")

\* manager.go:205, 210-215: AddRecord succeeded.
OnAddRecordOk(added, last, r) ==
    Step(0, TRUE, r.RecordDomain, "none", SleepWait, "upsert_ok")

\* Variant of OnAddRecordFail: the failed label is remembered as written.
OnAddRecordFail_Marks(added, last, r) ==
    Step(0, TRUE, r.RecordDomain, "none", SleepRetry, "upsert_fail")

\* manager.go:205-209: AddRecord failed.
OnAddRecordFail(added, last, r) ==
    Step(0, added, last, "none", SleepRetry, "upsert_fail")

\* manager.go:204, 214-215: the record is already written.
OnRecordUnchanged(added, last) ==
    Step(0, added, last, "none", SleepWait, "none")

\* manager.go:217-219  case "process"
OnProcess(added, last) ==
    Step(0, added, last, "none", SleepWait, "none")

\* manager.go:221-223  case "certificate"
OnCertificate(added, last) ==
    Step(0, added, last, "nil", 0, "none")

\* Variant of OnFailed: a failed order is polled again.
OnFailed_Retry(added, last) ==
    Step(0, added, last, "none", SleepWait, "none")

\* manager.go:225-226  case "failed"
OnFailed(added, last) ==
    Step(0, added, last, "failed", 0, "none")

\* Variant of OnOtherStatus: an unknown status ends the loop as failed.
OnOtherStatus_Fail(added, last) ==
    Step(0, added, last, "failed", 0, "none")

\* manager.go:228-230  default
OnOtherStatus(added, last) ==
    Step(0, added, last, "none", SleepUnknown, "none")

\* manager.go:190-231: the switch on status.Status.
Switch(added, last, r, dnsOk) ==
    CASE r.Status = "domain_verify" ->
           IF ~HasChallenge(r)
           THEN OnNoChallenge(added, last)
           ELSE IF NeedAddRecord(added, last, r)
                THEN IF dnsOk
                     THEN OnAddRecordOk(added, last, r)
                     ELSE OnAddRecordFail(added, last, r)
                ELSE OnRecordUnchanged(added, last)
      [] r.Status = "process" -> OnProcess(added, last)
      [] r.Status = "certificate" -> OnCertificate(added, last)
      [] r.Status = "failed" -> OnFailed(added, last)
      [] OTHER -> OnOtherStatus(added, last)

\* Variant of AddRecordArgs: the label written last is sent again.
AddRecordArgs_Stale(domain, last, r) ==
    [op |-> "AddRecord", domain |-> domain, rr |-> last,
     Type |-> r.RecordType, Value |-> r.RecordValue]

\* manager.go:205  dnsProvider.AddRecord(ctx, domain, status.RecordDomain,
\* status.RecordType, status.RecordValue)
AddRecordArgs(domain, last, r) ==
    [op |-> "AddRecord", domain |-> domain, rr |-> r.RecordDomain,
     Type |-> r.RecordType, Value |-> r.RecordValue]

\* manager.go:205: the outcomes of AddRecord where the body calls it
\* (TRUE alone where it does not).
AddRecordOutcomes(added, last, r) ==
    IF /\ ~r.err
       /\ r.Status = "domain_verify"
       /\ HasChallenge(r)
       /\ NeedAddRecord(added, last, r)
    THEN BOOLEAN
    ELSE {TRUE}

\* manager.go:176-231: one pass through the loop body after the
\* cancellation check, for poll result r and AddRecord outcome dnsOk.
Body(cErr, added, last, r, dnsOk) ==
    IF r.err
    THEN OnPollError(cErr, added, last)
    ELSE LET s == Switch(added, last, r, dnsOk)
         IN  [s EXCEPT !.cErr = ErrorsAfterSuccess(cErr)]

\* hist is kept for a resume and for the first domain of a batch; calls is
\* kept for a resume and for a single call of ProcessDomain.
HistObserved == mode = "resume" \/ (mode = "run" /\ idx <= 1)
CallsObserved == mode \in {"resume", "domain"}

\* Entry of hist for poll result r with DNS action a, polled by the loop
\* (by = "loop") or by ContinueOrder before the loop (by = "resume").
HistEntry(r, a, by) ==
    [st |-> IF r.err THEN "error" ELSE r.Status,
     label |-> IF ~r.err /\ r.Status = "domain_verify" /\ HasChallenge(r)
               THEN r.RecordDomain ELSE "",
     act |-> a,
     by |-> by]

\* hist after one more poll: complete for the first MaxHist polls only.
Logged(r, a, by) ==
    IF HistObserved /\ histOn /\ Len(hist) < MaxHist
    THEN <<Append(hist, HistEntry(r, a, by)), TRUE>>
    ELSE <<(<<>>), FALSE>>

\* pollKinds after a poll returned r: "other" while every poll of the loop
\* returned a status outside the canonical four, "dv" while every poll
\* returned domain_verify, "mixed" otherwise.
KindOf(r) ==
    IF r.err THEN "mixed"
    ELSE IF r.Status = "domain_verify" THEN "dv"
    ELSE IF r.Status \in {"process", "certificate", "failed"} THEN "mixed"
    ELSE "other"

KindsAfter(k, r) ==
    IF k = "none" \/ k = KindOf(r) THEN KindOf(r) ELSE "mixed"

Call(op, ok) == [op |-> op, ok |-> ok]

\* calls after the calls es were made.
Log(es) == IF CallsObserved THEN calls \o es ELSE calls

\* manager.go:160-167: entry of waitForDNSValidation.
EnterLoop(o) ==
    /\ pc' = "loop_head"
    /\ orderID' = o
    /\ i' = 0
    /\ consecutiveErrors' = 0
    /\ dnsRecordAdded' = FALSE
    /\ lastRecordDomain' = ""
    /\ waitErr' = NoErr
    /\ failsSinceOk' = 0
    /\ pollCalls' = 0
    /\ lastPoll' = NoPoll
    /\ dnsAct' = "none"
    /\ dnsCall' = <<>>
    /\ sleepDur' = 0
    /\ okLabel' = ""
    /\ okValue' = <<"", "">>
    /\ pollKinds' = "none"

LoopUnchanged ==
    UNCHANGED <<i, consecutiveErrors, dnsRecordAdded, lastRecordDomain,
                waitErr, failsSinceOk, pollCalls, lastPoll, dnsAct, dnsCall, sleepDur,
                okLabel, okValue, pollKinds>>

\* manager.go:169-174 and 234: loop condition, then the cancellation check.
waitForDNSValidation_Head ==
    /\ pc = "loop_head"
    /\ IF ~LoopCond(i)
       THEN /\ pc' = "loop_ret"
            /\ waitErr' = TimeoutError(orderID)
       ELSE IF CancelObserved(cancelled)
            THEN /\ pc' = "loop_ret"
                 /\ waitErr' = Err("ctx")
            ELSE /\ pc' = "loop_poll"
                 /\ UNCHANGED waitErr
    /\ UNCHANGED <<mode, cancelled, cancelAt, idx, orderID, i, consecutiveErrors,
                   dnsRecordAdded, lastRecordDomain, certDownloaded, retErr,
                   runErr, lastPoll, dnsAct, dnsCall, sleepDur, failsSinceOk,
                   pollCalls, okLabel, okValue, pollKinds, hist, histOn, calls,
                   processed, outcomes>>
    /\ needRenewObs' = <<>>
    /\ UNCHANGED hookObs
    /\ UNCHANGED <<regVars, libVars>>

\* manager.go:176, 253: a provider call that panics does not return.
Panics(r) == r.panic

\* No recover() anywhere in src: the panic unwinds every frame and ends the
\* process; nothing of the loop, ProcessDomain, ContinueOrder or Run runs
\* afterwards.
Crash == pc' = "crashed"

\* manager.go:176-231: GetCertificateStatus, the status switch and AddRecord.
waitForDNSValidation_Poll ==
    /\ pc = "loop_poll"
    /\ \E r \in PollResults :
       \E dnsOk \in AddRecordOutcomes(dnsRecordAdded, lastRecordDomain, r) :
         LET b == Body(consecutiveErrors, dnsRecordAdded, lastRecordDomain,
                       r, dnsOk)
             h == Logged(r, b.act, "loop")
         IN  IF Panics(r)
             THEN
             /\ Crash
             /\ pollCalls' = pollCalls + 1
             /\ UNCHANGED <<consecutiveErrors, dnsRecordAdded,
                            lastRecordDomain, waitErr, sleepDur, lastPoll,
                            dnsAct, dnsCall, failsSinceOk, okLabel, okValue,
                            pollKinds, hist, histOn>>
             ELSE
             /\ consecutiveErrors' = b.cErr
             /\ dnsRecordAdded' = b.added
             /\ lastRecordDomain' = b.last
             /\ IF b.ret = "none"
                THEN pc' = "loop_sleep" /\ UNCHANGED waitErr
                ELSE pc' = "loop_ret" /\ waitErr' = Err(b.ret)
             /\ sleepDur' = b.sleep
             /\ lastPoll' = r
             /\ dnsAct' = b.act
             /\ dnsCall' = IF b.act = "none"
                           THEN <<>>
                           ELSE <<AddRecordArgs(Domains[idx],
                                                lastRecordDomain, r)>>
             /\ failsSinceOk' = IF r.err THEN failsSinceOk + 1 ELSE 0
             /\ pollCalls' = pollCalls + 1
             /\ okLabel' = IF b.act = "upsert_ok" THEN r.RecordDomain
                           ELSE okLabel
             /\ okValue' = IF b.act = "upsert_ok"
                           THEN <<r.RecordType, r.RecordValue>>
                           ELSE okValue
             /\ pollKinds' = KindsAfter(pollKinds, r)
             /\ hist' = h[1]
             /\ histOn' = h[2]
    /\ UNCHANGED <<mode, cancelled, cancelAt, idx, orderID, i, certDownloaded, retErr,
                   runErr, calls, processed, outcomes>>
    /\ UNCHANGED <<needRenewObs, hookObs>>
    /\ UNCHANGED <<regVars, libVars>>

\* manager.go:183-230, 169: time.Sleep returns, then i++.
waitForDNSValidation_Wake ==
    /\ pc = "loop_sleep"
    /\ pc' = "loop_head"
    /\ i' = NextIteration(i)
    /\ sleepDur' = 0
    /\ lastPoll' = NoPoll
    /\ dnsAct' = "none"
    /\ dnsCall' = <<>>
    /\ UNCHANGED <<mode, cancelled, cancelAt, idx, orderID, consecutiveErrors,
                   dnsRecordAdded, lastRecordDomain, certDownloaded, waitErr,
                   retErr, runErr, failsSinceOk, pollCalls, okLabel, okValue,
                   pollKinds, hist, histOn, calls, processed, outcomes>>
    /\ UNCHANGED <<needRenewObs, hookObs>>
    /\ UNCHANGED <<regVars, libVars>>

\* ----------------------------------------------------------- Validator
\* A domain name is the sequence of its dot-separated labels.
\* The name configured for domain k.
DomainName(k) ==
    CASE k = 1 -> <<"api", "example", "com">>
      [] k = 2 -> <<"example", "com">>
      [] OTHER -> <<"api", "sub", "example", "com">>

\* Names a served certificate may cover (common name and alternate names).
CertNames ==
    {<<"api", "example", "com">>, <<"*", "example", "com">>,
     <<"*", "sub", "example", "com">>, <<"other", "org">>}
CertDomainLists ==
    {<<>>} \cup {<<n>> : n \in CertNames}
           \cup {<<(<<"other", "org">>), (<<"*", "example", "com">>)>>}

\* Whole hours from now to the served certificate's NotAfter.
HoursLeftValues == {-25, 0, 23, 24, 47, 48, 49, 720, 743, 744}
\* renew_days of a domain (validated > 0 when the configuration is loaded).
RenewDaysValues == {1, 30}

\* time.Time{} and a time hoursLeft hours from now.
ZeroTime == [zero |-> TRUE, hoursLeft |-> 0]
TimeIn(h) == [zero |-> FALSE, hoursLeft |-> h]

\* validator.go:21-44: what CheckCertExpiry returns: the dial error, the
\* "no certificate" error, or NotAfter and the covered names.
ProbeResults ==
    {[err |-> e, expiry |-> ZeroTime, certDomains |-> <<>>] :
        e \in {"dial", "nocert"}}
    \cup {[err |-> "", expiry |-> TimeIn(h), certDomains |-> d] :
            h \in HoursLeftValues, d \in CertDomainLists}

\* domain/parser.go:7-13  ExtractMainDomain: strings.Split(domain, "."),
\* then the last two parts joined by "." when there are at least two.
ExtractMainDomain(d) ==
    IF Len(d) >= 2 THEN SubSeq(d, Len(d) - 1, Len(d)) ELSE d

\* Variant of MatchDomain: only the exact match counts.
MatchDomain_ExactOnly(certDomain, targetDomain) == certDomain = targetDomain

\* domain/parser.go:30-44  MatchDomain: strings.HasPrefix(certDomain, "*.")
\* holds when the first label is "*" and another label follows;
\* strings.TrimPrefix drops that label.
MatchDomain(certDomain, targetDomain) ==
    IF certDomain = targetDomain THEN TRUE
    ELSE IF Len(certDomain) >= 2 /\ certDomain[1] = "*"
    THEN Tail(certDomain) = ExtractMainDomain(targetDomain)
    ELSE FALSE

\* validator.go:68-75  matchDomain
matchDomain(certDomains, targetDomain) ==
    \E k \in 1..Len(certDomains) : MatchDomain(certDomains[k], targetDomain)

\* validator.go:61  int(time.Until(expiry).Hours() / 24): truncation
\* towards zero.
DaysUntilExpiry(h) == IF h >= 0 THEN h \div 24 ELSE -((-h) \div 24)

\* Variant of Expiring: exactly renewDays days left is not yet expiring.
Expiring_Strict(daysUntilExpiry, renewDays) == daysUntilExpiry < renewDays

\* validator.go:64  return daysUntilExpiry <= renewDays, expiry, nil
Expiring(daysUntilExpiry, renewDays) == daysUntilExpiry <= renewDays

\* Variant of NeedRenew: a failed probe is reported as an error.
NeedRenew_ProbeFatal(probe, domain, renewDays) ==
    IF probe.err # ""
    THEN [need |-> FALSE, expiry |-> ZeroTime, err |-> TRUE]
    ELSE IF ~matchDomain(probe.certDomains, domain)
    THEN [need |-> TRUE, expiry |-> probe.expiry, err |-> FALSE]
    ELSE [need |-> Expiring(DaysUntilExpiry(probe.expiry.hoursLeft), renewDays),
          expiry |-> probe.expiry, err |-> FALSE]

\* validator.go:47-65  NeedRenew
NeedRenew(probe, domain, renewDays) ==
    IF probe.err # ""
    THEN [need |-> TRUE, expiry |-> ZeroTime, err |-> FALSE]
    ELSE IF ~matchDomain(probe.certDomains, domain)
    THEN [need |-> TRUE, expiry |-> probe.expiry, err |-> FALSE]
    ELSE [need |-> Expiring(DaysUntilExpiry(probe.expiry.hoursLeft), renewDays),
          expiry |-> probe.expiry, err |-> FALSE]

\* ------------------------------------------------------- ProcessDomain
\* Locals of waitForDNSValidation go out of scope when it returns.
LeaveLoop ==
    /\ i' = 0
    /\ consecutiveErrors' = 0
    /\ dnsRecordAdded' = FALSE
    /\ lastRecordDomain' = ""
    /\ failsSinceOk' = 0
    /\ pollCalls' = 0
    /\ lastPoll' = NoPoll
    /\ dnsAct' = "none"
    /\ dnsCall' = <<>>
    /\ sleepDur' = 0
    /\ okLabel' = ""
    /\ okValue' = <<"", "">>
    /\ pollKinds' = "none"

\* ProcessDomain returns e: to Run (manager.go:39), or to its caller.
ProcessDomain_Return(e) ==
    /\ pc' = IF mode = "run" THEN "pd_ret" ELSE "done"
    /\ retErr' = e

\* Variant of SkipAcquire: a reused certificate does not end the run.
SkipAcquire_Never(downloaded) == FALSE

\* manager.go:95  if !certDownloaded { ... }: the renewal decision and the
\* issuance are skipped when a certificate was reused.
SkipAcquire(downloaded) == downloaded

\* manager.go:69-92: the calls of the reuse check, for the outcome found of
\* FindValidCertificate and those of GetCertificateDetail and SaveCertificate.
ReuseCalls(found, detailOk, saveOk) ==
    IF found # "found" THEN <<Call("find", found = "none")>>
    ELSE IF ~detailOk THEN <<Call("find", TRUE), Call("detail", FALSE)>>
    ELSE <<Call("find", TRUE), Call("detail", TRUE), Call("save", saveOk)>>

\* Variant of ReuseFatal: a failed reuse check ends the run with its error.
ReuseFatal_Returned(found, detailOk) ==
    found = "err" \/ (found = "found" /\ ~detailOk)

\* manager.go:69-71, 78-80: the errors of FindValidCertificate and of
\* GetCertificateDetail are logged, never returned.
ReuseFatal(found, detailOk) == FALSE

\* manager.go:49-95: providers from the factory, then the reuse check:
\* FindValidCertificate, GetCertificateDetail, SaveCertificate.
ProcessDomain_Reuse ==
    /\ pc = "pd_reuse"
    /\ \E provOk \in BOOLEAN :
       \E found \in IF provOk THEN {"none", "err", "found"} ELSE {"none"} :
       \E detailOk \in IF found = "found" THEN BOOLEAN ELSE {TRUE} :
       \E saveOk \in IF found = "found" /\ detailOk THEN BOOLEAN ELSE {TRUE} :
         IF ~provOk
         THEN /\ ProcessDomain_Return(Err("providers"))
              /\ UNCHANGED <<calls, certDownloaded>>
         ELSE IF ReuseFatal(found, detailOk)
         THEN /\ calls' = Log(ReuseCalls(found, detailOk, saveOk))
              /\ ProcessDomain_Return(Err("reuse"))
              /\ UNCHANGED certDownloaded
         ELSE LET dl == found = "found" /\ detailOk /\ saveOk IN
              /\ calls' = Log(ReuseCalls(found, detailOk, saveOk))
              /\ certDownloaded' = dl
              /\ pc' = IF SkipAcquire(dl) THEN "pd_post" ELSE "pd_renew"
              /\ UNCHANGED retErr
    /\ needRenewObs' = <<>>
    /\ UNCHANGED hookObs
    /\ LoopUnchanged
    /\ UNCHANGED <<mode, cancelled, cancelAt, idx, orderID, runErr, hist,
                   histOn, processed, outcomes>>
    /\ UNCHANGED <<regVars, libVars>>

\* Variant of NoRenewalNeeded: the renewal decision is ignored.
NoRenewalNeeded_Never(needRenew) == FALSE

\* manager.go:101  if !needRenew { return nil }
NoRenewalNeeded(needRenew) == ~needRenew

\* Variant of ApplyFatal: a failed ApplyCertificate does not end the run.
ApplyFatal_Ignored(applyOk) == FALSE

\* manager.go:112  if err != nil { return fmt.Errorf("申请证书失败") }
ApplyFatal(applyOk) == ~applyOk

\* manager.go:96-117: the renewal decision (NeedRenew, whose error is only
\* logged), then ApplyCertificate and the call of waitForDNSValidation.
ProcessDomain_Renew ==
    /\ pc = "pd_renew"
    /\ \E probe \in ProbeResults, renewDays \in RenewDaysValues :
       LET nr == NeedRenew(probe, DomainName(idx), renewDays) IN
       \E applyOk \in IF NoRenewalNeeded(nr.need) THEN {TRUE} ELSE BOOLEAN :
         /\ UNCHANGED hookObs
         /\ needRenewObs' =
               IF CallsObserved
               THEN <<[probe |-> probe, renewDays |-> renewDays,
                       out |-> nr]>>
               ELSE <<>>
         /\ IF NoRenewalNeeded(nr.need)
            THEN /\ calls' = Log(<<Call("needrenew", nr.need)>>)
                 /\ ProcessDomain_Return(Nil)
                 /\ LoopUnchanged
                 /\ UNCHANGED orderID
            ELSE IF ApplyFatal(applyOk)
            THEN /\ calls' = Log(<<Call("needrenew", nr.need),
                                        Call("apply", applyOk)>>)
                 /\ ProcessDomain_Return(Err("apply"))
                 /\ LoopUnchanged
                 /\ UNCHANGED orderID
            ELSE /\ calls' = Log(<<Call("needrenew", nr.need),
                                        Call("apply", applyOk)>>)
                 /\ EnterLoop(OrderOf(Domains[idx]))
                 /\ UNCHANGED retErr
    /\ UNCHANGED <<mode, cancelled, cancelAt, idx, certDownloaded, runErr, hist, histOn,
                   processed, outcomes>>
    /\ UNCHANGED <<regVars, libVars>>

\* Variant of WaitFailed: the loop's error is not looked at.
WaitFailed_Ignored(e) == FALSE

\* manager.go:117, 271  if err := m.waitForDNSValidation(...); err != nil
WaitFailed(e) == e.kind # "nil"

\* manager.go:117-131: the loop's result, DownloadCertificate,
\* SaveCertificate.
ProcessDomain_Fetch ==
    /\ pc = "loop_ret"
    /\ mode \in {"run", "domain"}
    /\ \E dlOk \in IF waitErr.kind = "nil" THEN BOOLEAN ELSE {TRUE} :
       \E saveOk \in IF waitErr.kind = "nil" /\ dlOk THEN BOOLEAN ELSE {TRUE} :
         IF WaitFailed(waitErr)
         THEN /\ ProcessDomain_Return(Err("wait"))
              /\ UNCHANGED <<calls, certDownloaded>>
         ELSE IF ~dlOk
         THEN /\ calls' = Log(<<Call("download", FALSE)>>)
              /\ ProcessDomain_Return(Err("download"))
              /\ UNCHANGED certDownloaded
         ELSE IF ~saveOk
         THEN /\ calls' = Log(<<Call("download", TRUE),
                                     Call("save", FALSE)>>)
              /\ ProcessDomain_Return(Err("save"))
              /\ UNCHANGED certDownloaded
         ELSE /\ calls' = Log(<<Call("download", TRUE),
                                     Call("save", TRUE)>>)
              /\ certDownloaded' = TRUE
              /\ pc' = "pd_post"
              /\ UNCHANGED retErr
    /\ LeaveLoop
    /\ UNCHANGED <<mode, cancelled, cancelAt, idx, orderID, waitErr, runErr, hist,
                   histOn, processed, outcomes>>
    /\ UNCHANGED <<needRenewObs, hookObs>>
    /\ UNCHANGED <<regVars, libVars>>

\* Post-hook commands a configuration may hold; "" is "not configured".
Commands == {"", "cmd", "reload"}

\* Variant of PostCommandOf: the global command comes first.
PostCommandOf_GlobalFirst(domainCmd, globalCmd) ==
    IF globalCmd = "" THEN domainCmd ELSE globalCmd

\* manager.go:136-139: the per-domain command, else the global one.
PostCommandOf(domainCmd, globalCmd) ==
    IF domainCmd = "" THEN globalCmd ELSE domainCmd

\* Variant of HookFatal: a failed post-hook ends the run with its error.
HookFatal_Returned(hookOk) == ~hookOk

\* manager.go:149-151  if err := RunPostCommand(...); err != nil { log }
HookFatal(hookOk) == FALSE

\* manager.go:134-156: the post-hook, whose failure is only logged.
ProcessDomain_Post ==
    /\ pc = "pd_post"
    /\ \E domainCmd \in Commands, globalCmd \in Commands, hookOk \in BOOLEAN :
         LET ran == certDownloaded /\ PostCommandOf(domainCmd, globalCmd) # ""
         IN  /\ calls' = IF ran THEN Log(<<Call("post", hookOk)>>) ELSE calls
             /\ hookObs' =
                   IF ran /\ CallsObserved
                   THEN <<[domainCmd |-> domainCmd, globalCmd |-> globalCmd,
                           command |-> PostCommandOf(domainCmd, globalCmd)]>>
                   ELSE hookObs
             /\ ProcessDomain_Return(IF ran /\ HookFatal(hookOk)
                                     THEN Err("hook") ELSE Nil)
    /\ LoopUnchanged
    /\ UNCHANGED <<mode, cancelled, cancelAt, idx, orderID, certDownloaded, runErr,
                   hist, histOn, processed, outcomes>>
    /\ UNCHANGED needRenewObs
    /\ UNCHANGED <<regVars, libVars>>

\* ----------------------------------------------------------------- Run
\* manager.go:38-39: the range loop hands domain k to ProcessDomain.
CallProcessDomain(k) ==
    /\ pc' = "pd_reuse"
    /\ idx' = k
    /\ processed' = Append(processed, Domains[k])
    /\ calls' = <<>>
    /\ certDownloaded' = FALSE
    /\ retErr' = NoErr

\* manager.go:49: ProcessDomain is called for one domain alone.
ProcessDomain_Call ==
    /\ pc = "start"
    /\ mode = "domain"
    /\ CallProcessDomain(1)
    /\ LoopUnchanged
    /\ UNCHANGED <<mode, cancelled, cancelAt, orderID, runErr, hist, histOn, outcomes>>
    /\ UNCHANGED <<needRenewObs, hookObs>>
    /\ UNCHANGED <<regVars, libVars>>

\* manager.go:35-39: Run starts with the first configured domain.
Run_Start ==
    /\ pc = "start"
    /\ mode = "run"
    /\ IF Len(Domains) >= 1
       THEN CallProcessDomain(1) /\ UNCHANGED runErr
       ELSE /\ pc' = "done"
            /\ runErr' = Nil
            /\ UNCHANGED <<idx, processed, calls, certDownloaded, retErr>>
    /\ LoopUnchanged
    /\ UNCHANGED <<mode, cancelled, cancelAt, orderID, hist, histOn, outcomes>>
    /\ UNCHANGED <<needRenewObs, hookObs>>
    /\ UNCHANGED <<regVars, libVars>>

\* manager.go:38-45: ProcessDomain has returned; its error is logged, the
\* loop goes to the next domain, and Run returns nil after the last one.
Run_Next ==
    /\ pc = "pd_ret"
    /\ mode = "run"
    /\ outcomes' = Append(outcomes, IF retErr.kind = "nil" THEN "ok" ELSE "fail")
    /\ IF idx < Len(Domains)
       THEN CallProcessDomain(idx + 1) /\ UNCHANGED runErr
       ELSE /\ pc' = "done"
            /\ runErr' = Nil
            /\ UNCHANGED <<idx, processed, calls, certDownloaded, retErr>>
    /\ hist' = <<>>
    /\ histOn' = FALSE
    /\ orderID' = NoOrder
    /\ waitErr' = NoErr
    /\ UNCHANGED <<mode, cancelled, cancelAt, i, consecutiveErrors,
                   dnsRecordAdded, lastRecordDomain, failsSinceOk, pollCalls,
                   lastPoll, dnsAct, dnsCall, sleepDur, okLabel, okValue, pollKinds>>
    /\ UNCHANGED <<needRenewObs, hookObs>>
    /\ UNCHANGED <<regVars, libVars>>

\* ------------------------------------------------------- ContinueOrder
\* ContinueOrder returns e to its caller.
ContinueOrder_Return(e) ==
    /\ pc' = "done"
    /\ retErr' = e

\* Variant of AlreadyIssued: the first poll's certificate is not noticed.
AlreadyIssued_Never(r) == FALSE

\* manager.go:260  if status.Status == "certificate"
AlreadyIssued(r) == ~r.err /\ r.Status = "certificate"

\* manager.go:238-271: providers from the factory, one GetCertificateStatus,
\* then either the download of an issued certificate or the polling loop.
ContinueOrder_Start ==
    /\ pc = "start"
    /\ mode = "resume"
    /\ \E provOk \in BOOLEAN :
       \E r \in IF provOk THEN PollResults ELSE {PollErr} :
       \E dlOk \in IF AlreadyIssued(r) THEN BOOLEAN ELSE {TRUE} :
       \E saveOk \in IF AlreadyIssued(r) /\ dlOk THEN BOOLEAN ELSE {TRUE} :
         IF ~provOk
         THEN /\ ContinueOrder_Return(Err("providers"))
              /\ LoopUnchanged
              /\ UNCHANGED <<calls, hist, histOn, orderID>>
         ELSE IF Panics(r)
         THEN /\ Crash
              /\ calls' = Log(<<Call("status", FALSE)>>)
              /\ LoopUnchanged
              /\ UNCHANGED <<retErr, hist, histOn, orderID>>
         ELSE LET h == Logged(r, "none", "resume") IN
              /\ hist' = h[1]
              /\ histOn' = h[2]
              /\ IF r.err
                 THEN /\ calls' = Log(<<Call("status", FALSE)>>)
                      /\ ContinueOrder_Return(Err("status"))
                      /\ LoopUnchanged
                      /\ UNCHANGED orderID
                 ELSE IF AlreadyIssued(r)
                 THEN /\ LoopUnchanged
                      /\ UNCHANGED orderID
                      /\ IF ~dlOk
                         THEN /\ calls' = Log(<<Call("status", TRUE),
                                                     Call("download", FALSE)>>)
                              /\ ContinueOrder_Return(Err("download"))
                         ELSE /\ calls' = Log(<<Call("status", TRUE),
                                                     Call("download", TRUE),
                                                     Call("save", saveOk)>>)
                              /\ ContinueOrder_Return(
                                   IF saveOk THEN Nil ELSE Err("save"))
                 ELSE /\ calls' = Log(<<Call("status", TRUE)>>)
                      /\ EnterLoop(orderID)
                      /\ UNCHANGED retErr
    /\ UNCHANGED <<mode, cancelled, cancelAt, idx, certDownloaded, runErr, processed,
                   outcomes>>
    /\ UNCHANGED <<needRenewObs, hookObs>>
    /\ UNCHANGED <<regVars, libVars>>

\* manager.go:271-286: the loop's result, DownloadCertificate,
\* SaveCertificate.
ContinueOrder_Fetch ==
    /\ pc = "loop_ret"
    /\ mode = "resume"
    /\ \E dlOk \in IF waitErr.kind = "nil" THEN BOOLEAN ELSE {TRUE} :
       \E saveOk \in IF waitErr.kind = "nil" /\ dlOk THEN BOOLEAN ELSE {TRUE} :
         IF WaitFailed(waitErr)
         THEN /\ ContinueOrder_Return(Err("wait"))
              /\ UNCHANGED calls
         ELSE IF ~dlOk
         THEN /\ calls' = Log(<<Call("download", FALSE)>>)
              /\ ContinueOrder_Return(Err("download"))
         ELSE /\ calls' = Log(<<Call("download", TRUE),
                                     Call("save", saveOk)>>)
              /\ ContinueOrder_Return(IF saveOk THEN Nil ELSE Err("save"))
    /\ LeaveLoop
    /\ UNCHANGED <<mode, cancelled, cancelAt, idx, orderID, certDownloaded, waitErr,
                   runErr, hist, histOn, processed, outcomes>>
    /\ UNCHANGED <<needRenewObs, hookObs>>
    /\ UNCHANGED <<regVars, libVars>>

\* ------------------------------------------- configuration and Factory
\* factory.go:42-63: the names the Factory's switch knows; "other" stands
\* for every other name.
Vendors == {"aliyun", "tencent", "huawei"}
ProviderNames == Vendors \cup {"other"}
\* A vendor's section of config.Providers: absent (nil pointer), present
\* with an empty key or secret, or present with both.
CredStates == {"nil", "incomplete", "complete"}
Kinds == {"cert", "dns"}
Keys == Kinds \X ProviderNames
\* manager.go:38-42, 238-250: the Factory is called from one goroutine
\* only, the one that runs Run's range loop or ContinueOrder.
Workers == {1}
\* Provider names the configured domains may select (cert_provider,
\* dns_provider, provider or the default).
DomainProviderSets ==
    {S \in SUBSET ProviderNames : Cardinality(S) \in {0, 1, 2}}
\* renew_days the configured domains may hold.
ConfigRenewDays == {-1, 0, 30}

\* config.Providers as loaded.
ProviderConfigs == [Vendors -> CredStates]

NoInst == <<>>
\* The n-th instance constructed for (kind, name).
Instance(kind, name, n) == <<kind, name, n>>
EmptyCache == [n \in ProviderNames |-> NoInst]
Idle == [pc |-> "idle", cert |-> "", dns |-> "", kind |-> "", inst |-> NoInst]

\* part_003:74-101  validateProviderConfig
validateProviderConfig(config, providerName) ==
    IF providerName \in Vendors
    THEN IF config[providerName] = "nil" THEN "unconfigured"
         ELSE IF config[providerName] = "incomplete" THEN "incomplete"
         ELSE "ok"
    ELSE "unsupported"

\* part_003:47-71  validate: a domain is configured, and every domain's
\* certificate and DNS provider and its renew_days are valid.
validate(config, names, days) ==
    /\ names # {}
    /\ \A n \in names : validateProviderConfig(config, n) = "ok"
    /\ ~(days <= 0)

\* part_003:11-44, main.go:245-254: config.Load, which ends the process
\* when validate fails; the Manager and its Factory are created after it.
Load ==
    /\ mode = "registry"
    /\ regPc = "load"
    /\ regPc' = IF validate(providers, domainProviders, cfgRenewDays) THEN "ready"
                ELSE "exit"
    /\ UNCHANGED <<entry, providers, domainProviders, cfgRenewDays, argProvider,
                   certProviders, dnsProviders, worker, requests, built,
                   attempted, returned, called>>
    /\ UNCHANGED <<orchVars, libVars>>

\* The name worker w is getting, and the cache of that kind.
NameOf(w) == IF worker[w].kind = "cert" THEN worker[w].cert ELSE worker[w].dns
CacheOf(kind) == IF kind = "cert" THEN certProviders ELSE dnsProviders

\* factory.go:118-119, manager.go:242: GetProvidersForDomain (a domain of a
\* batch) or ContinueOrder (a resume) asks for the certificate provider.
GetProviders_Begin(w) ==
    /\ mode = "registry"
    /\ regPc = "ready"
    /\ worker[w].pc = "idle"
    /\ requests < MaxRequests
    /\ entry = "resume" => requests = 0
    /\ \E c \in IF entry = "resume" THEN {argProvider} ELSE domainProviders :
       \E d \in IF entry = "resume" THEN {argProvider} ELSE domainProviders :
         worker' = [worker EXCEPT ![w] =
                      [pc |-> "lookup", cert |-> c, dns |-> d,
                       kind |-> "cert", inst |-> NoInst]]
    /\ requests' = requests + 1
    /\ UNCHANGED <<regPc, entry, providers, domainProviders, cfgRenewDays,
                   argProvider, certProviders, dnsProviders, built,
                   attempted, returned, called>>
    /\ UNCHANGED <<orchVars, libVars>>

\* factory.go:35, 71, 78, 114, 119-129, manager.go:242-250: the get returns
\* inst; the caller goes on to the DNS provider or to its first provider call.
GetReturns(w, inst) ==
    /\ returned' = returned \cup {<<worker[w].kind, NameOf(w), inst>>}
    /\ worker' = [worker EXCEPT ![w] =
                    IF worker[w].kind = "cert"
                    THEN [@ EXCEPT !.pc = "lookup", !.kind = "dns",
                                   !.inst = NoInst]
                    ELSE [@ EXCEPT !.pc = "call", !.inst = NoInst]]

\* factory.go:45, 62, 66, 121, 126: the get fails and so does the request.
GetFails(w) ==
    /\ worker' = [worker EXCEPT ![w] = Idle]
    /\ UNCHANGED returned

\* Variant of Cached: the cache is never hit.
Cached_Never(cache, name) == FALSE

\* factory.go:34, 77  if p, ok := f.certProviders[name]; ok
Cached(cache, name) == cache[name] # NoInst

\* factory.go:34-36, 77-79: the cache lookup.
GetProvider_Lookup(w) ==
    /\ regPc = "ready"
    /\ worker[w].pc = "lookup"
    /\ IF Cached(CacheOf(worker[w].kind), NameOf(w))
       THEN GetReturns(w, CacheOf(worker[w].kind)[NameOf(w)])
       ELSE /\ worker' = [worker EXCEPT ![w].pc = "switch"]
            /\ UNCHANGED returned
    /\ UNCHANGED <<regPc, entry, providers, domainProviders, cfgRenewDays,
                   argProvider, certProviders, dnsProviders, requests, built,
                   attempted, called>>
    /\ UNCHANGED <<orchVars, libVars>>

\* factory.go:44, 50, 56  if f.config.Providers.X == nil
Configured(config, name) == config[name] # "nil"

\* Variant of AfterFailedGet: the nil provider of the failed get is cached.
AfterFailedGet_StoresNil(cache, name) == [cache EXCEPT ![name] = <<"nil">>]

\* factory.go:45, 62, 65-67: every failing path returns before the map
\* write at line 70 (88, 105, 108-110 and 113 for DNS).
AfterFailedGet(cache, name) == cache

\* The caches after the get of worker w failed.
FailedGetCaches(w) ==
    /\ certProviders' = IF worker[w].kind = "cert"
                        THEN AfterFailedGet(certProviders, NameOf(w))
                        ELSE certProviders
    /\ dnsProviders' = IF worker[w].kind = "dns"
                       THEN AfterFailedGet(dnsProviders, NameOf(w))
                       ELSE dnsProviders

\* factory.go:42-67, 85-110: the switch on the name and the vendor's
\* constructor, which builds the client from the credentials as they are and
\* may fail.
GetProvider_Construct(w) ==
    /\ regPc = "ready"
    /\ worker[w].pc = "switch"
    /\ LET k == worker[w].kind
           n == NameOf(w)
       IN  IF n \notin Vendors \/ ~Configured(providers, n)
           THEN /\ GetFails(w)
                /\ FailedGetCaches(w)
                /\ UNCHANGED <<built, attempted>>
           ELSE /\ attempted' = attempted \cup {<<k, n>>}
                /\ \E ok \in BOOLEAN :
                     IF ok
                     THEN /\ built' = [built EXCEPT ![<<k, n>>] = @ + 1]
                          /\ worker' = [worker EXCEPT
                                          ![w].pc = "store",
                                          ![w].inst =
                                             Instance(k, n, built[<<k, n>>] + 1)]
                          /\ UNCHANGED <<returned, certProviders,
                                         dnsProviders>>
                     ELSE /\ GetFails(w)
                          /\ FailedGetCaches(w)
                          /\ UNCHANGED built
    /\ UNCHANGED <<regPc, entry, providers, domainProviders, cfgRenewDays,
                   argProvider, requests, called>>
    /\ UNCHANGED <<orchVars, libVars>>

\* Variant of Stored: the new instance is not put into the cache.
Stored_Dropped(cache, name, inst) == cache

\* factory.go:70, 113  f.certProviders[name] = p
Stored(cache, name, inst) == [cache EXCEPT ![name] = inst]

\* factory.go:69-71, 112-114: the instance is cached and returned.
GetProvider_Store(w) ==
    /\ regPc = "ready"
    /\ worker[w].pc = "store"
    /\ IF worker[w].kind = "cert"
       THEN /\ certProviders' =
                 Stored(certProviders, NameOf(w), worker[w].inst)
            /\ UNCHANGED dnsProviders
       ELSE /\ dnsProviders' =
                 Stored(dnsProviders, NameOf(w), worker[w].inst)
            /\ UNCHANGED certProviders
    /\ GetReturns(w, worker[w].inst)
    /\ UNCHANGED <<regPc, entry, providers, domainProviders, cfgRenewDays, argProvider,
                   requests, built, attempted, called>>
    /\ UNCHANGED <<orchVars, libVars>>

\* manager.go:69, 253: the caller's first call of the certificate provider
\* (FindValidCertificate, or GetCertificateStatus in a resume).
Provider_FirstCall(w) ==
    /\ regPc = "ready"
    /\ worker[w].pc = "call"
    /\ called' = called \cup {<<"cert", worker[w].cert>>}
    /\ worker' = [worker EXCEPT ![w] = Idle]
    /\ UNCHANGED <<regPc, entry, providers, domainProviders, cfgRenewDays,
                   argProvider, certProviders, dnsProviders, requests, built,
                   attempted, returned>>
    /\ UNCHANGED <<orchVars, libVars>>

\* A process that loads its configuration and uses the Factory.
RegInit ==
    /\ regPc = "load"
    /\ entry \in {"fresh", "resume"}
    /\ providers \in ProviderConfigs
    /\ domainProviders \in DomainProviderSets
    /\ cfgRenewDays \in ConfigRenewDays
    /\ argProvider \in IF entry = "resume" THEN ProviderNames ELSE {""}
    /\ certProviders = EmptyCache
    /\ dnsProviders = EmptyCache
    /\ worker = [w \in Workers |-> Idle]
    /\ requests = 0
    /\ built = [k \in Keys |-> 0]
    /\ attempted = {}
    /\ returned = {}
    /\ called = {}

\* The Factory is not looked at in the orchestrator's modes.
RegOff ==
    /\ regPc = "off"
    /\ entry = ""
    /\ providers = [v \in Vendors |-> "nil"]
    /\ domainProviders = {}
    /\ cfgRenewDays = 0
    /\ argProvider = ""
    /\ certProviders = EmptyCache
    /\ dnsProviders = EmptyCache
    /\ worker = [w \in Workers |-> Idle]
    /\ requests = 0
    /\ built = [k \in Keys |-> 0]
    /\ attempted = {}
    /\ returned = {}
    /\ called = {}

\* ------------------------------------------- domain-name functions
\* Names the functions of domain/parser.go are applied to.  A string is the
\* sequence of the parts strings.Split(s, ".") gives: "" is <<"">> and
\* ".example.com" is <<"", "example", "com">>.
DomainNames ==
    {<<"">>, <<"com">>, <<"*">>, <<"example", "com">>, <<"other", "com">>,
     <<"*", "com">>, <<"", "example", "com">>, <<"api", "example", "com">>,
     <<"sub", "example", "com">>, <<"*", "example", "com">>,
     <<"api", "sub", "example", "com">>, <<"*", "sub", "example", "com">>,
     <<"_dnsauth", "www", "example", "com">>}

\* strings.HasSuffix(s, "." + suffix): s is x + "." + suffix for a string
\* x, that is the parts of s are those of x followed by those of suffix.
HasDotSuffix(s, suffix) ==
    /\ Len(s) > Len(suffix)
    /\ SubSeq(s, Len(s) - Len(suffix) + 1, Len(s)) = suffix

\* Variant of ExtractSubDomain: the main domain is never cut off.
ExtractSubDomain_Keep(fullRecord, mainDomain) == fullRecord

\* domain/parser.go:17-22  ExtractSubDomain
ExtractSubDomain(fullRecord, mainDomain) ==
    IF HasDotSuffix(fullRecord, mainDomain)
    THEN SubSeq(fullRecord, 1, Len(fullRecord) - Len(mainDomain))
    ELSE fullRecord

\* domain/parser.go:7: ExtractMainDomain is applied to a name, and to what
\* it returned.
Parser_ExtractMainDomain ==
    /\ mode = "parser"
    /\ \E d \in DomainNames :
         mainObs' = <<[domain |-> d,
                       out |-> ExtractMainDomain(d),
                       again |-> ExtractMainDomain(ExtractMainDomain(d))]>>
    /\ subObs' = <<>>
    /\ matchObs' = <<>>
    /\ UNCHANGED <<orchVars, regVars, zoneVars, statusVars, storageVars,
                   findVars>>

\* domain/parser.go:17: ExtractSubDomain is applied to a record name and a
\* main domain.
Parser_ExtractSubDomain ==
    /\ mode = "parser"
    /\ \E f \in DomainNames, m \in DomainNames :
         subObs' = <<[fullRecord |-> f, mainDomain |-> m,
                      out |-> ExtractSubDomain(f, m)]>>
    /\ mainObs' = <<>>
    /\ matchObs' = <<>>
    /\ UNCHANGED <<orchVars, regVars, zoneVars, statusVars, storageVars,
                   findVars>>

\* domain/parser.go:30: MatchDomain is applied to a certificate name and a
\* target name.
Parser_MatchDomain ==
    /\ mode = "parser"
    /\ \E c \in DomainNames, t \in DomainNames :
         matchObs' = <<[certDomain |-> c, targetDomain |-> t,
                        out |-> MatchDomain(c, t)]>>
    /\ mainObs' = <<>>
    /\ subObs' = <<>>
    /\ UNCHANGED <<orchVars, regVars, zoneVars, statusVars, storageVars,
                   findVars>>

\* No call of the domain-name functions was made yet.
ParserInit ==
    /\ mainObs = <<>>
    /\ subObs = <<>>
    /\ matchObs = <<>>

\* --------------------------------------------------- DNS adapters
\* The zone's domain, and the record names, types and values AddRecord is
\* called with: the challenge label alone or followed by the main domain.
ZoneDomain == <<"www", "example", "com">>
RecordNames ==
    {<<"_dnsauth">>, <<"_dnsauth", "example", "com">>, <<"_dnsauth", "www">>}
RecordTypes == {"TXT", "CNAME"}
RecordValues == {"v1", "v2"}

\* aliyun/dns.go:124-156, tencent/dns.go:126-161, huawei dns.go:645-692
\* FindRecord: the position of the first record whose RR and Type are
\* those asked for, 0 when there is none.
FindRecord(z, subDomain, recordType) ==
    IF \E k \in 1..Len(z) : z[k].RR = subDomain /\ z[k].Type = recordType
    THEN CHOOSE k \in 1..Len(z) :
            /\ z[k].RR = subDomain /\ z[k].Type = recordType
            /\ \A j \in 1..(k - 1) :
                  ~(z[j].RR = subDomain /\ z[j].Type = recordType)
    ELSE 0

\* webhook.go:549-552: the outcomes of getZoneID, which only huawei's
\* AddRecord calls.
ZoneLookups(vendor) == IF vendor = "huawei" THEN BOOLEAN ELSE {TRUE}

\* aliyun/dns.go:74 AddDomainRecord, tencent/dns.go:67 CreateRecord,
\* huawei dns.go:579 CreateRecordSet: the outcomes of the create request.
\* A zone takes several records of one name and type with different
\* values; the vendor refuses a record identical to one it holds, and
\* huawei, whose records are record sets, a second set of one name and type.
CreateOutcomes(vendor, z, rec) ==
    IF \E k \in 1..Len(z) :
          /\ z[k].RR = rec.RR
          /\ z[k].Type = rec.Type
          /\ (vendor = "huawei" \/ z[k].Value = rec.Value)
    THEN {FALSE}
    ELSE BOOLEAN

\* aliyun/dns.go:84-104, tencent/dns.go:77-101, webhook.go:589-619
\* UpdateRecord: the zone after the update request for the record at
\* position recordID succeeded: its RR (the sub-domain extracted from rr),
\* Type and Value are replaced.
UpdateRecord(z, recordID, rr, recordType, value) ==
    [z EXCEPT ![recordID] =
        [RR |-> ExtractSubDomain(rr, ExtractMainDomain(ZoneDomain)),
         Type |-> recordType, Value |-> value]]

\* aliyun/dns.go:97 UpdateDomainRecord, tencent/dns.go:94 ModifyRecord,
\* webhook.go:612 UpdateRecordSet (after getZoneID): the outcomes of the
\* update; huawei refuses a second record set of one name and type.
UpdateOutcomes(vendor, z, recordID, rec) ==
    IF /\ vendor = "huawei"
       /\ \E k \in 1..Len(z) :
             k # recordID /\ z[k].RR = rec.RR /\ z[k].Type = rec.Type
    THEN {FALSE}
    ELSE BOOLEAN

\* The zone z without the record at position k.
RemoveAt(z, k) == SubSeq(z, 1, k - 1) \o SubSeq(z, k + 1, Len(z))

\* aliyun/dns.go:49-81, tencent/dns.go:42-74, huawei dns.go:544-586
\* AddRecord: the existing record is looked up (a failed lookup is only
\* logged), updated by UpdateRecord when found and created otherwise.  A
\* zone of MaxRecords records takes no further record.
DNSProvider_AddRecord ==
    /\ mode = "zone"
    /\ \E rr \in RecordNames, recordType \in RecordTypes,
          value \in RecordValues, findOk \in BOOLEAN :
       \E zoneOk \in ZoneLookups(adapter) :
         LET mainDomain == ExtractMainDomain(ZoneDomain)
             subDomain == ExtractSubDomain(rr, mainDomain)
             existing == IF findOk THEN FindRecord(zone, subDomain, recordType)
                         ELSE 0
             rec == [RR |-> subDomain, Type |-> recordType, Value |-> value]
             obs(lookup, err) ==
                 <<[subDomain |-> subDomain, Type |-> recordType,
                    Value |-> value, lookup |-> lookup, err |-> err]>>
         IN  IF ~zoneOk
             THEN /\ addObs' = obs("zone", TRUE)
                  /\ UNCHANGED zone
             ELSE IF existing # 0
             THEN LET zu == UpdateRecord(zone, existing, subDomain,
                                         recordType, value)
                  IN  \E updateOk \in
                           UpdateOutcomes(adapter, zone, existing, zu[existing]) :
                        /\ addObs' = obs("found", ~updateOk)
                        /\ zone' = IF updateOk THEN zu ELSE zone
             ELSE /\ Len(zone) < MaxRecords
                  /\ \E createOk \in CreateOutcomes(adapter, zone, rec) :
                       /\ addObs' = obs(IF findOk THEN "none" ELSE "err",
                                        ~createOk)
                       /\ zone' = IF createOk THEN Append(zone, rec)
                                  ELSE zone
    /\ UNCHANGED adapter
    /\ UNCHANGED <<orchVars, regVars, parserVars, statusVars, storageVars,
                   findVars>>

\* aliyun/dns.go:84-104, tencent/dns.go:77-101, webhook.go:589-619
\* UpdateRecord called by itself on a record of the zone.
DNSProvider_UpdateRecord ==
    /\ mode = "zone"
    /\ \E recordID \in 1..Len(zone), rr \in RecordNames,
          recordType \in RecordTypes, value \in RecordValues :
       \E zoneOk \in ZoneLookups(adapter) :
         LET zu == UpdateRecord(zone, recordID, rr, recordType, value) IN
         \E updateOk \in UpdateOutcomes(adapter, zone, recordID,
                                        zu[recordID]) :
           zone' = IF zoneOk /\ updateOk THEN zu ELSE zone
    /\ addObs' = <<>>
    /\ UNCHANGED adapter
    /\ UNCHANGED <<orchVars, regVars, parserVars, statusVars, storageVars,
                   findVars>>

\* aliyun/dns.go:107-121, tencent/dns.go:104-123, webhook.go:622-642
\* DeleteRecord of a record of the zone.
DNSProvider_DeleteRecord ==
    /\ mode = "zone"
    /\ \E recordID \in 1..Len(zone), deleteOk \in BOOLEAN :
       \E zoneOk \in ZoneLookups(adapter) :
         zone' = IF zoneOk /\ deleteOk THEN RemoveAt(zone, recordID)
                 ELSE zone
    /\ addObs' = <<>>
    /\ UNCHANGED adapter
    /\ UNCHANGED <<orchVars, regVars, parserVars, statusVars, storageVars,
                   findVars>>

\* The zone holds no record of the adapter yet.
ZoneInit ==
    /\ adapter \in IF mode = "zone" THEN Vendors ELSE {""}
    /\ zone = <<>>
    /\ addObs = <<>>

\* ------------------------------------------- certificate adapters
\* part_000:77  for retry := 0; retry < 3; retry++
AliyunRetries == 3
\* part_000:85  time.Sleep(time.Duration(retry+1) * 5 * time.Second)
AliyunRetrySleep == 5

\* Native status values: the Type of aliyun's DescribeCertificateState
\* ("" when the field is absent), the Status code of tencent's
\* DescribeCertificate, the Status of huawei's ShowCertificate ("" when
\* the pointer is nil).
AliyunTypes ==
    {"domain_verify", "process", "verify", "payed", "checking",
     "certificate", "verify_fail", "unknow", ""}
TencentCodes == 0..13
HuaweiStatuses ==
    {"PAID", "CHECKING", "ISSUED", "REVOKED", "EXPIRED", "UPLOAD", ""}

\* part_000:104-115  mapAliyunStatus
mapAliyunStatus(aliyunStatus) ==
    CASE aliyunStatus = "domain_verify" -> "domain_verify"
      [] aliyunStatus \in {"process", "verify", "payed", "checking"} ->
           "process"
      [] aliyunStatus = "certificate" -> "certificate"
      [] OTHER -> aliyunStatus

\* tencent/dns.go:307-332  mapTencentStatus
mapTencentStatus(status) ==
    CASE status \in {0, 4, 5, 8} -> "domain_verify"
      [] status = 1 -> "certificate"
      [] status \in {2, 7, 10} -> "failed"
      [] OTHER -> "process"

\* webhook.go:320-330: the status huawei's GetCertificateStatus reports.
mapHuaweiStatus(status) ==
    CASE status \in {"PAID", "CHECKING"} -> "process"
      [] status = "ISSUED" -> "certificate"
      [] status \in {"REVOKED", "EXPIRED"} -> "failed"
      [] OTHER -> "certificate"

\* What a call of GetCertificateStatus returned: the error, or the status
\* mapped from the native value (native for a string, code for tencent's
\* number), after attempts requests and slept seconds of sleep.
StatusObs(vendor, native, code, err, status, attempts, slept) ==
    <<[vendor |-> vendor, native |-> native, code |-> code, err |-> err,
       Status |-> status, attempts |-> attempts, slept |-> slept,
       panic |-> FALSE]>>

\* A call of GetCertificateStatus that did not return: it panicked after
\* attempts requests and slept seconds of sleep.
StatusPanic(vendor, attempts, slept) ==
    <<[vendor |-> vendor, native |-> "", code |-> 0, err |-> FALSE,
       Status |-> "", attempts |-> attempts, slept |-> slept,
       panic |-> TRUE]>>

\* part_000:77-86: seconds slept by aliyun's retry loop when its first n
\* requests failed.
RECURSIVE AliyunSlept(_)
AliyunSlept(n) == IF n = 0 THEN 0 ELSE AliyunSlept(n - 1) + n * AliyunRetrySleep

\* Variant of AliyunAttempts: the loop does not stop at a success.
AliyunAttempts_NoBreak(failed) == AliyunRetries

\* part_000:77-82: requests made by the retry loop when the first failed
\* requests fail: it breaks at the first one that succeeds.
AliyunAttempts(failed) ==
    IF failed >= AliyunRetries THEN AliyunRetries ELSE failed + 1

\* part_000:66-101  aliyun CertProvider.GetCertificateStatus: up to three
\* requests, a sleep after each failed one, then the mapping.  The code
\* tells a failure by the response of the last request (part_000:87): the
\* vendor client, which is not part of these sources, returns with its
\* error either no response (respNil) or an empty one, whose nil Body is
\* dereferenced at part_000:92.
Aliyun_GetCertificateStatus ==
    /\ mode = "status"
    /\ \E failed \in 0..AliyunRetries, native \in AliyunTypes,
          respNil \in BOOLEAN :
         statusObs' =
            IF failed = AliyunRetries
            THEN IF respNil
                 THEN StatusObs("aliyun", "", 0, TRUE, "",
                                AliyunAttempts(failed),
                                AliyunSlept(AliyunRetries))
                 ELSE StatusPanic("aliyun", AliyunAttempts(failed),
                                  AliyunSlept(AliyunRetries))
            ELSE StatusObs("aliyun", native, 0, FALSE,
                           mapAliyunStatus(native), AliyunAttempts(failed),
                           AliyunSlept(failed))
    /\ UNCHANGED <<orchVars, regVars, parserVars, zoneVars, storageVars,
                   findVars>>

\* tencent/dns.go:269-304  tencent CertProvider.GetCertificateStatus
Tencent_GetCertificateStatus ==
    /\ mode = "status"
    /\ \E callOk \in BOOLEAN, code \in TencentCodes :
         statusObs' =
            IF ~callOk
            THEN StatusObs("tencent", "", 0, TRUE, "", 1, 0)
            ELSE StatusObs("tencent", "", code, FALSE,
                           mapTencentStatus(code), 1, 0)
    /\ UNCHANGED <<orchVars, regVars, parserVars, zoneVars, storageVars,
                   findVars>>

\* webhook.go:310-336  huawei CertProvider.GetCertificateStatus
Huawei_GetCertificateStatus ==
    /\ mode = "status"
    /\ \E callOk \in BOOLEAN, native \in HuaweiStatuses :
         statusObs' =
            IF ~callOk
            THEN StatusObs("huawei", "", 0, TRUE, "", 1, 0)
            ELSE StatusObs("huawei", native, 0, FALSE,
                           mapHuaweiStatus(native), 1, 0)
    /\ UNCHANGED <<orchVars, regVars, parserVars, zoneVars, storageVars,
                   findVars>>

\* No call of GetCertificateStatus was made yet.
StatusInit == statusObs = <<>>

\* ------------------------------------------------------ FileStorage
\* s.baseDir and the domains certificates are saved for.
BaseDir == <<"certs">>
StorageDomains == {"example.com"}
\* provider.Certificate as handed to SaveCertificate: the leaf, the private
\* key ("": not available) and the chain ("": absent).
Certificates ==
    [Certificate : {"leaf"}, PrivateKey : {"", "key"}, Chain : {"", "chain"}]

\* filepath.Join of a path and one more element.
Join(path, elem) == Append(path, elem)

\* part_002:66-68  GetCertDir
GetCertDir(domain) == Join(BaseDir, domain)
\* part_002:71-73  GetCertPath
GetCertPath(domain) == Join(Join(BaseDir, domain), "cert.pem")
\* part_002:76-78  GetKeyPath
GetKeyPath(domain) == Join(Join(BaseDir, domain), "key.pem")
\* part_002:81-83  GetFullchainPath
GetFullchainPath(domain) == Join(Join(BaseDir, domain), "fullchain.pem")

Paths ==
    UNION {{GetCertPath(d), GetKeyPath(d), GetFullchainPath(d)} :
             d \in StorageDomains}

\* No file, and the file os.WriteFile leaves when save number n writes
\* content.
NoFile == [exists |-> FALSE, content |-> "", by |-> 0]
Written(content, n) == [exists |-> TRUE, content |-> content, by |-> n]

\* part_002:50-53: the chain, or the leaf when the chain is absent.
FullchainContent(cert) ==
    IF cert.Chain = "" THEN cert.Certificate ELSE cert.Chain

\* The outcomes of os.WriteFile, which opens the file with O_CREATE and
\* O_TRUNC and then writes: "ok", "open" (the open fails) or "write" (the
\* write or the close fails after the open).
WriteOutcomes == {"ok", "open", "write"}

\* The file at a path after os.WriteFile of content by save number n, for
\* the file there before: an open that fails leaves the path as it was, a
\* write that fails leaves the file created or truncated by the open.
WriteFile(file, content, n, outcome) ==
    CASE outcome = "ok" -> Written(content, n)
      [] outcome = "open" -> file
      [] outcome = "write" -> Written("", n)

\* part_002:23-63  SaveCertificate: MkdirAll, cert.pem, key.pem when there
\* is a private key, fullchain.pem, whose failed write is only logged
\* (part_002:55-56).
FileStorage_SaveCertificate ==
    /\ mode = "storage"
    /\ saves < MaxSaves
    /\ saves' = saves + 1
    /\ \E domain \in StorageDomains, cert \in Certificates,
          mkdirOk \in BOOLEAN, certOut \in WriteOutcomes,
          keyOut \in WriteOutcomes, chainOut \in WriteOutcomes :
         LET n == saves + 1
             outputDir == Join(BaseDir, domain)
             certPath == Join(outputDir, "cert.pem")
             keyPath == Join(outputDir, "key.pem")
             fullchainPath == Join(outputDir, "fullchain.pem")
             obs(err) == <<[domain |-> domain, cert |-> cert, n |-> n,
                            err |-> err]>>
             f1 == [files EXCEPT ![certPath] =
                       WriteFile(@, cert.Certificate, n, certOut)]
             f2 == IF cert.PrivateKey # ""
                   THEN [f1 EXCEPT ![keyPath] =
                           WriteFile(@, cert.PrivateKey, n, keyOut)]
                   ELSE f1
             f3 == [f2 EXCEPT ![fullchainPath] =
                      WriteFile(@, FullchainContent(cert), n, chainOut)]
         IN  IF ~mkdirOk
             THEN /\ saveObs' = obs("mkdir") /\ UNCHANGED files
             ELSE IF certOut # "ok"
             THEN /\ saveObs' = obs("cert") /\ files' = f1
             ELSE IF cert.PrivateKey # "" /\ keyOut # "ok"
             THEN /\ saveObs' = obs("key") /\ files' = f2
             ELSE /\ saveObs' = obs("") /\ files' = f3
    /\ UNCHANGED <<orchVars, regVars, parserVars, zoneVars, statusVars,
                   findVars>>

\* part_002:18-20  NewFileStorage: nothing was saved yet.
StorageInit ==
    /\ files = [q \in Paths |-> NoFile]
    /\ saves = 0
    /\ saveObs = <<>>

\* ------------------------------------------- FindValidCertificate
\* Domains a certificate is looked for, and the minDays asked for.
FindDomains == {<<"api", "example", "com">>, <<"api", "sub", "example", "com">>}
MinDaysValues == {1, 2}
\* provider.CertificateInfo as listed by ListCertificates: the primary
\* domain, the alternate names and the whole hours until NotAfter.
CertInfos ==
    [Domain : {<<"api", "example", "com">>, <<"*", "example", "com">>,
               <<"*", "sub", "example", "com">>},
     Sans : {<<>>, <<(<<"api", "example", "com">>)>>},
     hoursLeft : {47, 48, 72}]
CertLists == UNION {[1..n -> CertInfos] : n \in 0..MaxCerts}

\* part_000:260-267, tencent/dns.go:497-504, webhook.go:456-463
\* containsDomain
containsDomain(domains, domain) ==
    \E k \in 1..Len(domains) : domains[k] = domain

\* part_000:205-207  matched := cert.Domain == domain ||
\* cert.Domain == "*."+mainDomain || containsDomain(cert.Sans, domain)
CertCovers(cert, domain) ==
    \/ cert.Domain = domain
    \/ cert.Domain = <<"*">> \o ExtractMainDomain(domain)
    \/ containsDomain(cert.Sans, domain)

\* Variant of ValidFor: exactly minDays days left is enough.
ValidFor_AtLeast(daysRemaining, minDays) == daysRemaining >= minDays

\* part_000:214  if matched && daysRemaining > minDays
ValidFor(daysRemaining, minDays) == daysRemaining > minDays

\* part_000:203-219: the position of the first listed certificate that
\* covers the domain and is valid long enough, 0 when there is none.
FirstValid(certs, domain, minDays) ==
    LET ok(k) == /\ CertCovers(certs[k], domain)
                 /\ ValidFor(DaysUntilExpiry(certs[k].hoursLeft), minDays)
    IN  IF \E k \in 1..Len(certs) : ok(k)
        THEN CHOOSE k \in 1..Len(certs) :
                ok(k) /\ \A j \in 1..(k - 1) : ~ok(j)
        ELSE 0

\* part_000:193-220, tencent/dns.go:429-455, webhook.go:413-439
\* FindValidCertificate: ListCertificates, whose error is returned, then
\* the first certificate that qualifies (found = 0: nil). One call is
\* looked at.
CertProvider_FindValidCertificate ==
    /\ mode = "find"
    /\ findObs = <<>>
    /\ \E domain \in FindDomains, minDays \in MinDaysValues,
          listOk \in BOOLEAN, certs \in CertLists :
         findObs' = <<[domain |-> domain, minDays |-> minDays,
                       certs |-> IF listOk THEN certs ELSE <<>>,
                       err |-> ~listOk,
                       found |-> IF listOk
                                 THEN FirstValid(certs, domain, minDays)
                                 ELSE 0]>>
    /\ UNCHANGED <<orchVars, regVars, parserVars, zoneVars, statusVars,
                   storageVars>>

\* No call of FindValidCertificate was made yet.
FindInit == findObs = <<>>

\* ------------------------------------------------------- environment
\* The process-shutdown signal cancels ctx (cmd/ssl-manager/main.go).
Cancel ==
    /\ ~cancelled
    /\ pc \notin {"done", "crashed"}
    /\ cancelled' = TRUE
    /\ cancelAt' = <<Len(processed)>>
    /\ UNCHANGED <<mode, pc, idx, orderID, i, consecutiveErrors,
                   dnsRecordAdded, lastRecordDomain, certDownloaded, waitErr,
                   retErr, runErr, lastPoll, dnsAct, dnsCall, sleepDur, failsSinceOk,
                   pollCalls, okLabel, okValue, pollKinds, hist, histOn, calls,
                   processed, outcomes>>
    /\ UNCHANGED <<needRenewObs, hookObs>>
    /\ UNCHANGED <<regVars, libVars>>

\* ------------------------------------------------------ specification
Init ==
    /\ mode \in {"run", "domain", "resume", "registry", "parser", "zone",
                 "status", "storage", "find"}
    /\ pc = IF mode \in {"run", "domain", "resume"} THEN "start" ELSE "done"
    /\ IF mode = "registry" THEN RegInit ELSE RegOff
    /\ cancelled = FALSE
    /\ cancelAt = <<>>
    /\ idx = IF mode = "resume" THEN 1 ELSE 0
    /\ orderID \in IF mode = "resume" THEN OrderIds ELSE {NoOrder}
    /\ i = 0
    /\ consecutiveErrors = 0
    /\ dnsRecordAdded = FALSE
    /\ lastRecordDomain = ""
    /\ certDownloaded = FALSE
    /\ waitErr = NoErr
    /\ retErr = NoErr
    /\ runErr = NoErr
    /\ lastPoll = NoPoll
    /\ dnsAct = "none"
    /\ dnsCall = <<>>
    /\ sleepDur = 0
    /\ failsSinceOk = 0
    /\ pollCalls = 0
    /\ okLabel = ""
    /\ okValue = <<"", "">>
    /\ pollKinds = "none"
    /\ hist = <<>>
    /\ histOn = (mode # "domain")
    /\ calls = <<>>
    /\ processed = <<>>
    /\ outcomes = <<>>
    /\ needRenewObs = <<>>
    /\ hookObs = <<>>
    /\ ParserInit
    /\ ZoneInit
    /\ StatusInit
    /\ StorageInit
    /\ FindInit

Next ==
    \/ Run_Start
    \/ Run_Next
    \/ ProcessDomain_Call
    \/ ProcessDomain_Reuse
    \/ ProcessDomain_Renew
    \/ ProcessDomain_Fetch
    \/ ProcessDomain_Post
    \/ ContinueOrder_Start
    \/ ContinueOrder_Fetch
    \/ waitForDNSValidation_Head
    \/ waitForDNSValidation_Poll
    \/ waitForDNSValidation_Wake
    \/ Cancel
    \/ Load
    \/ \E w \in Workers : GetProviders_Begin(w)
    \/ \E w \in Workers : GetProvider_Lookup(w)
    \/ \E w \in Workers : GetProvider_Construct(w)
    \/ \E w \in Workers : GetProvider_Store(w)
    \/ \E w \in Workers : Provider_FirstCall(w)
    \/ Parser_ExtractMainDomain
    \/ Parser_ExtractSubDomain
    \/ Parser_MatchDomain
    \/ DNSProvider_AddRecord
    \/ DNSProvider_UpdateRecord
    \/ DNSProvider_DeleteRecord
    \/ Aliyun_GetCertificateStatus
    \/ Tencent_GetCertificateStatus
    \/ Huawei_GetCertificateStatus
    \/ FileStorage_SaveCertificate
    \/ CertProvider_FindValidCertificate

Spec == Init /\ [][Next]_vars

\* The loop's steps are steps of a running goroutine: a provider call
\* returns and time.Sleep wakes up, so each enabled step is eventually taken.
LoopStep ==
    \/ waitForDNSValidation_Head
    \/ waitForDNSValidation_Poll
    \/ waitForDNSValidation_Wake

\* manager.go:35-287: the Manager's own entry points (Run, ProcessDomain,
\* ContinueOrder), the Factory and the libraries left as constructed.
OrchInit ==
    /\ Init
    /\ mode \in {"run", "domain", "resume"}

\* The steps of the Manager and the cancellation of its context.
OrchNext ==
    \/ Run_Start
    \/ Run_Next
    \/ ProcessDomain_Call
    \/ ProcessDomain_Reuse
    \/ ProcessDomain_Renew
    \/ ProcessDomain_Fetch
    \/ ProcessDomain_Post
    \/ ContinueOrder_Start
    \/ ContinueOrder_Fetch
    \/ waitForDNSValidation_Head
    \/ waitForDNSValidation_Poll
    \/ waitForDNSValidation_Wake
    \/ Cancel

FairSpec == OrchInit /\ [][OrchNext]_vars /\ WF_vars(LoopStep)

\* ------------------------------------------------------------- claims
InLoop == pc \in LoopPcs

\* The polls of hist made by the loop itself.
LoopHist == SelectSeq(hist, LAMBDA e : e.by = "loop")

\* The statuses (with the challenge label) of a log, in order.
Syms(h) == [k \in 1..Len(h) |-> <<h[k].st, h[k].label>>]
DV(l) == <<"domain_verify", l>>

\* Number of AddRecord calls in a log, and whether none of them failed.
UpsertCount(h) == Cardinality({k \in 1..Len(h) : h[k].act # "none"})
NoUpsertFailed(h) == \A k \in 1..Len(h) : h[k].act # "upsert_fail"

\* Label of the last successful AddRecord before entry k of h ("": none).
LastOk(h, k) ==
    LET S == {j \in 1..(k - 1) : h[j].act = "upsert_ok"}
    IN  IF S = {} THEN ""
        ELSE h[CHOOSE j \in S : \A m \in S : m <= j].label

\* Entry k of h is a domain_verify poll with challenge data.
IsChallenge(h, k) == h[k].st = "domain_verify" /\ h[k].label # ""

\* Number of calls of op in the log of calls.
CallCount(op) == Cardinality({k \in 1..Len(calls) : calls[k].op = op})

\* C1: waitForDNSValidation always terminates (it returns, or the process
\* ends in a provider call that panics), after at most 60 iterations and at
\* most 60 GetCertificateStatus calls (failed polls and failed DNS writes
\* included); when no iteration returned (terminal status or abort) it
\* returns the timeout error, which carries the orderId it was called with.
C1_Bounded ==
    /\ i <= maxRetries
    /\ pollCalls <= maxRetries
    /\ (InLoop \/ pc = "loop_ret") => pollCalls \in {i, i + 1}
    /\ (pc = "loop_ret" /\ waitErr.kind = "timeout")
          => /\ waitErr.orderId = orderID
             /\ orderID # NoOrder
             /\ i = maxRetries
             /\ pollCalls = maxRetries
    /\ (pc = "loop_ret" /\ i = maxRetries) => waitErr.kind = "timeout"

C1_Terminates ==
    /\ []C1_Bounded
    /\ (InLoop ~> (pc = "loop_ret" \/ pc = "crashed"))

C1_Witness ==
    /\ pc = "loop_ret"
    /\ waitErr = TimeoutError(orderID)
    /\ pollCalls = maxRetries

\* C2: when three polls in a row have failed, the loop has returned the
\* poll error, and the step that follows makes no call at all: no fourth
\* GetCertificateStatus, no AddRecord, no DownloadCertificate.
C2_AbortAtThird ==
    [][/\ (failsSinceOk' = 3 => pc' = "loop_ret" /\ waitErr'.kind = "poll")
       /\ (failsSinceOk = 3 =>
             /\ pc' \in {pc, "pd_ret", "done"}
             /\ UNCHANGED <<calls, hist, histOn>>
             /\ (pc' # pc => retErr'.kind = "wait"))]_vars

C2_Witness ==
    /\ pc = "loop_ret"
    /\ waitErr.kind = "poll"
    /\ pollCalls = 3
    /\ histOn
    /\ Syms(hist) = <<(<<"error", "">>), (<<"error", "">>), (<<"error", "">>)>>

\* C3: consecutiveErrors always equals the number of failed polls since the
\* last successful poll (or since the loop started), and the loop returns
\* the poll error only with three failures in a row, however many polls
\* failed in total.
C3_CounterIsConsecutive ==
    /\ consecutiveErrors = failsSinceOk
    /\ (pc = "loop_ret" /\ waitErr.kind = "poll") => failsSinceOk = 3
    /\ InLoop => failsSinceOk < 3

\* Three failed polls in total, a successful one between them: no abort.
C3_Witness ==
    /\ pc = "loop_sleep"
    /\ histOn
    /\ Syms(LoopHist) = <<(<<"error", "">>), (<<"error", "">>),
                          (<<"process", "">>), (<<"error", "">>)>>
    /\ consecutiveErrors = 1

\* C4: an iteration calls AddRecord exactly when its poll returned
\* domain_verify with challenge data and either no AddRecord of this loop
\* has succeeded yet or the label differs from the label of the last
\* successful one; so polls [domain_verify(A), domain_verify(A)] make one
\* AddRecord call (the first one succeeding) and [domain_verify(A),
\* domain_verify(B)] make two.
C4_InLog ==
    histOn =>
      LET h == LoopHist IN
        /\ \A k \in 1..Len(h) :
             (h[k].act # "none") <=>
                (IsChallenge(h, k) /\ LastOk(h, k) # h[k].label)
        /\ (Syms(h) = <<DV("A"), DV("A")>> /\ h[1].act = "upsert_ok")
              => UpsertCount(h) = 1
        /\ Syms(h) = <<DV("A"), DV("B")>> => UpsertCount(h) = 2

C4_UpsertExactlyWhen ==
    /\ []C4_InLog
    /\ [][(pc = "loop_poll" /\ pc' # "loop_poll") =>
            ((dnsAct' # "none") <=>
               /\ ~lastPoll'.err
               /\ lastPoll'.Status = "domain_verify"
               /\ HasChallenge(lastPoll')
               /\ okLabel # lastPoll'.RecordDomain)]_vars

\* The second domain_verify(A) is skipped.
C4_Witness ==
    /\ pc = "loop_sleep"
    /\ histOn
    /\ Syms(LoopHist) = <<DV("A"), DV("A")>>
    /\ UpsertCount(LoopHist) = 1
    /\ dnsAct = "none"
    /\ okLabel = "A"

\* C5: a resume, and likewise an uninterrupted run, whose polls return
\* [domain_verify(A), domain_verify(A), process, certificate] and whose
\* AddRecord does not fail, calls AddRecord exactly once, leaves the loop
\* with success, calls DownloadCertificate exactly once, saves what it
\* downloaded right after it, and returns success when both succeed.
FetchedAndSaved ==
    \E k \in 1..(Len(calls) - 1) :
       calls[k] = Call("download", TRUE) /\ calls[k + 1] = Call("save", TRUE)

C5Seq == <<DV("A"), DV("A"), (<<"process", "">>), (<<"certificate", "">>)>>

C5_ResumeConverges ==
    /\ (histOn /\ Syms(hist) = C5Seq /\ NoUpsertFailed(hist)) =>
          /\ UpsertCount(hist) = 1
          /\ pc \in {"loop_ret", "pd_post", "pd_ret", "done"}
          /\ waitErr = Nil
    /\ (CallsObserved /\ waitErr = Nil /\ pc \in {"pd_post", "done"}) =>
          /\ CallCount("download") = 1
          /\ \A k \in 1..Len(calls) :
               calls[k] = Call("download", TRUE) =>
                  k + 1 <= Len(calls) /\ calls[k + 1].op = "save"
          /\ pc = "pd_post" => FetchedAndSaved
          /\ pc = "done" => (retErr = Nil <=> FetchedAndSaved)

C5_Witness ==
    /\ mode = "resume"
    /\ pc = "done"
    /\ histOn
    /\ Syms(hist) = C5Seq
    /\ UpsertCount(hist) = 1
    /\ CallCount("download") = 1
    /\ FetchedAndSaved
    /\ retErr = Nil

\* C6: when the cancellation was raised while the loop was running (during
\* a backoff wait, that of the 60th iteration included), the loop returns
\* the context's error at the end of that wait and never the timeout error.
C6_CancelNeverTimeout ==
    [][(pc = "loop_head" /\ cancelled /\ pc' = "loop_ret")
          => waitErr'.kind = "ctx"]_vars

\* The batch has ended: Run has returned or the process has ended.
RunEnded == pc \in {"done", "crashed"}

\* C7: Run hands every configured domain to ProcessDomain exactly once, in
\* configuration order and one at a time, whatever the outcome of the
\* other domains: when the batch has ended every configured domain has
\* been processed; the error of one domain is recorded for that domain
\* only and Run itself returns nil.
C7_BatchIndependent ==
    mode = "run" =>
       /\ processed = SubSeq(Domains, 1, Len(processed))
       /\ idx = Len(processed)
       /\ runErr \in {NoErr, Nil}
       /\ pc \notin {"start", "done"} => Len(outcomes) = Len(processed) - 1
       /\ RunEnded => processed = Domains
       /\ pc = "done" =>
            /\ runErr = Nil
            /\ Len(outcomes) = Len(Domains)
       /\ pc # "done" => runErr = NoErr

\* C8: the first poll that returns certificate makes the loop return
\* success and the first that returns failed makes it return an error;
\* that iteration calls no AddRecord and no poll of the loop follows it.
C8_Terminal ==
    /\ (~lastPoll.err /\ lastPoll.Status = "certificate")
          => pc = "loop_ret" /\ waitErr = Nil /\ dnsAct = "none"
    /\ (~lastPoll.err /\ lastPoll.Status = "failed")
          => pc = "loop_ret" /\ waitErr = Err("failed") /\ dnsAct = "none"
    /\ waitErr.kind \in {"nil", "failed"} => ~InLoop
    /\ histOn =>
         \A k \in 1..Len(LoopHist) :
            LoopHist[k].st \in {"certificate", "failed"} =>
               k = Len(LoopHist) /\ LoopHist[k].act = "none"

\* failed reported after the challenge record was written.
C8_Witness ==
    /\ pc = "loop_ret"
    /\ lastPoll.Status = "failed"
    /\ waitErr = Err("failed")
    /\ dnsRecordAdded
    /\ pollCalls >= 2

\* C9: a poll status outside the canonical four only makes the loop back
\* off: no success, no CA-failed error, no AddRecord; a loop whose polls
\* returned only such statuses ends by timeout or by cancellation.
C9_UnknownIsTransient ==
    /\ (~lastPoll.err /\ lastPoll.Status \in OtherStatuses)
          => /\ pc = "loop_sleep"
             /\ waitErr = NoErr
             /\ dnsAct = "none"
             /\ sleepDur = SleepUnknown
    /\ (pc = "loop_ret" /\ pollKinds = "other")
          => waitErr.kind \in {"timeout", "ctx"}
    /\ (pc = "loop_ret" /\ pollKinds = "other" /\ ~cancelled)
          => waitErr = TimeoutError(orderID)

C9_Witness ==
    /\ pc = "loop_ret"
    /\ pollKinds = "other"
    /\ pollCalls = maxRetries
    /\ waitErr.kind = "timeout"

\* C10 as written: after a failed AddRecord the loop keeps polling, the
\* failed label is not recorded as written, the next domain_verify poll with
\* challenge data calls AddRecord again, and when every AddRecord fails
\* while the CA stays in domain_verify the loop ends with the timeout error
\* carrying the orderId.
C10_WrittenIsSucceeded ==
    /\ dnsRecordAdded <=> okLabel # ""
    /\ dnsRecordAdded => lastRecordDomain = okLabel
    /\ dnsAct = "upsert_fail" => pc = "loop_sleep" /\ sleepDur = SleepRetry
    /\ (pc = "loop_ret" /\ pollKinds = "dv" /\ okLabel = "")
          => waitErr.kind \in {"timeout", "ctx"}
    /\ (pc = "loop_ret" /\ pollKinds = "dv" /\ okLabel = "" /\ ~cancelled)
          => waitErr = TimeoutError(orderID)

C10_RetriesNextChallenge ==
    /\ C10_WrittenIsSucceeded
    /\ histOn =>
         LET h == LoopHist IN
           \A k \in 1..(Len(h) - 1) :
              (h[k].act = "upsert_fail" /\ IsChallenge(h, k + 1))
                 => h[k + 1].act # "none"

\* C10 amended: as above, but the next domain_verify poll with challenge
\* data calls AddRecord again unless its label is the label of the loop's
\* last successful AddRecord.
C10_RetriesUnlessWritten ==
    /\ C10_WrittenIsSucceeded
    /\ histOn =>
         LET h == LoopHist IN
           \A k \in 1..(Len(h) - 1) :
              (h[k].act = "upsert_fail" /\ IsChallenge(h, k + 1)
               /\ h[k + 1].label # LastOk(h, k + 1))
                 => h[k + 1].act # "none"

\* Two failed writes of the same challenge in a row, nothing recorded.
C10_Witness ==
    /\ pc = "loop_sleep"
    /\ histOn
    /\ Syms(LoopHist) = <<DV("A"), DV("A")>>
    /\ LoopHist[1].act = "upsert_fail"
    /\ LoopHist[2].act = "upsert_fail"
    /\ ~dnsRecordAdded
    /\ sleepDur = SleepRetry

\* C11: a domain_verify poll whose label or whose value is empty makes the
\* iteration take no DNS action and leaves dnsRecordAdded, lastRecordDomain
\* and the last written label as they were; the loop backs off 10 seconds.
C11_NoChallengeNoAction ==
    [][(/\ pc = "loop_poll"
        /\ pc' # "loop_poll"
        /\ ~lastPoll'.err
        /\ lastPoll'.Status = "domain_verify"
        /\ (lastPoll'.RecordDomain = "" \/ lastPoll'.RecordValue = ""))
       => /\ dnsAct' = "none"
          /\ UNCHANGED <<dnsRecordAdded, lastRecordDomain, okLabel>>
          /\ pc' = "loop_sleep"
          /\ sleepDur' = SleepRetry]_vars

\* A label without a value, polled after the record for B was written.
C11_Witness ==
    /\ pc = "loop_sleep"
    /\ lastPoll = PollOk("domain_verify", "A", "TXT", "")
    /\ dnsAct = "none"
    /\ dnsRecordAdded
    /\ lastRecordDomain = "B"
    /\ sleepDur = SleepRetry

\* The run's calls start with a successful reuse: FindValidCertificate found
\* a certificate, GetCertificateDetail and SaveCertificate succeeded.
Reused ==
    /\ Len(calls) >= 3
    /\ SubSeq(calls, 1, 3) =
         <<Call("find", TRUE), Call("detail", TRUE), Call("save", TRUE)>>

\* The polling loop was never entered in this run.
NeverPolled ==
    /\ orderID = NoOrder
    /\ waitErr = NoErr
    /\ pollCalls = 0
    /\ i = 0
    /\ dnsAct = "none"

\* C12: in ProcessDomain, once FindValidCertificate returned a certificate
\* and GetCertificateDetail and SaveCertificate succeeded, the run makes no
\* NeedRenew, ApplyCertificate, GetCertificateStatus or AddRecord call: only
\* the post-hook may follow, and the run returns nil.
C12_ReuseEndsRun ==
    (mode = "domain" /\ Reused) =>
       /\ pc \in {"pd_post", "done"}
       /\ certDownloaded
       /\ NeverPolled
       /\ needRenewObs = <<>>
       /\ \A k \in 4..Len(calls) : calls[k].op = "post"
       /\ Len(calls) <= 4
       /\ pc = "done" => retErr = Nil

C12_Witness ==
    /\ mode = "domain"
    /\ pc = "done"
    /\ Reused
    /\ retErr = Nil
    /\ Len(calls) = 4

\* The last call of the run is NeedRenew, which returned false.
EndedByNoRenewal ==
    /\ Len(calls) >= 1
    /\ calls[Len(calls)] = Call("needrenew", FALSE)

\* C13: in ProcessDomain, when nothing was reused and NeedRenew returned
\* false, the run returned nil and made no ApplyCertificate,
\* GetCertificateStatus, AddRecord, DownloadCertificate or SaveCertificate
\* call and did not run the post-hook.
C13_NoRenewalIsNoOp ==
    (mode = "domain" /\ ~certDownloaded /\ EndedByNoRenewal) =>
       /\ pc = "done"
       /\ retErr = Nil
       /\ NeverPolled
       /\ \A k \in 1..Len(calls) :
            calls[k].op \notin {"apply", "download", "save", "post"}

\* C14: a failed ApplyCertificate ends the domain's run with an error:
\* ApplyCertificate is called at most once per run, the failed call is the
\* run's last call, and the polling loop is never entered.
C14_ApplyFailureIsFatal ==
    /\ retErr.kind = "apply" =>
          /\ pc \in {"pd_ret", "done"}
          /\ orderID = NoOrder
          /\ waitErr = NoErr
    /\ mode = "domain" =>
          /\ CallCount("apply") <= 1
          /\ \A k \in 1..Len(calls) :
               calls[k] = Call("apply", FALSE) =>
                  /\ k = Len(calls)
                  /\ pc = "done"
                  /\ retErr = Err("apply")
                  /\ NeverPolled
                  /\ ~certDownloaded

\* ApplyCertificate fails after a reuse attempt whose save failed.
C14_Witness ==
    /\ mode = "domain"
    /\ pc = "done"
    /\ retErr = Err("apply")
    /\ Len(calls) = 5
    /\ calls[3] = Call("save", FALSE)
    /\ calls[5] = Call("apply", FALSE)

\* C15: a resume that returned success has fetched by order, persisted the
\* certificate, and then invoked the post-hook.
C15_ResumeRunsPostHook ==
    (mode = "resume" /\ pc = "done" /\ retErr = Nil) =>
       /\ FetchedAndSaved
       /\ Len(calls) >= 1
       /\ calls[Len(calls)].op = "post"

\* C16: when the first GetCertificateStatus of ContinueOrder returns
\* certificate, the polling loop is never entered: no AddRecord and no
\* other GetCertificateStatus is made, DownloadCertificate follows at once
\* and SaveCertificate follows a successful download.
C16_ResumeSkipsToFetch ==
    (mode = "resume" /\ histOn /\ Len(hist) >= 1
     /\ hist[1].st = "certificate") =>
       /\ Len(hist) = 1
       /\ hist[1].by = "resume"
       /\ hist[1].act = "none"
       /\ pc = "done"
       /\ pollCalls = 0
       /\ waitErr = NoErr
       /\ dnsAct = "none"
       /\ CallCount("status") = 1
       /\ \/ calls = <<Call("status", TRUE), Call("download", FALSE)>>
          \/ \E b \in BOOLEAN :
               /\ calls = <<Call("status", TRUE), Call("download", TRUE),
                            Call("save", b)>>
               /\ (retErr = Nil <=> b)

C16_Witness ==
    /\ mode = "resume"
    /\ pc = "done"
    /\ histOn
    /\ Len(hist) = 1
    /\ hist[1].st = "certificate"
    /\ calls = <<Call("status", TRUE), Call("download", TRUE),
                 Call("save", TRUE)>>
    /\ retErr = Nil

\* C20: for every renewDays > 0, when CheckCertExpiry fails (the dial fails
\* or no certificate is served) NeedRenew returns true with the zero time
\* and no error, and the run goes on to ApplyCertificate: it is not ended
\* by the probe failure.
C20_ProbeFailureNeedsRenewal ==
    needRenewObs # <<>> =>
       LET o == needRenewObs[1] IN
         (o.probe.err # "" /\ o.renewDays > 0) =>
            /\ o.out = [need |-> TRUE, expiry |-> ZeroTime, err |-> FALSE]
            /\ Len(calls) >= 2
            /\ calls[Len(calls) - 1] = Call("needrenew", TRUE)
            /\ calls[Len(calls)].op = "apply"
            /\ \/ pc = "loop_head" /\ calls[Len(calls)].ok
               \/ pc = "done" /\ retErr = Err("apply")

C20_Witness ==
    /\ needRenewObs # <<>>
    /\ needRenewObs[1].probe.err = "nocert"
    /\ needRenewObs[1].out.expiry = ZeroTime
    /\ pc = "loop_head"
    /\ orderID # NoOrder

\* C21: when the probe succeeds, NeedRenew returns true if and only if no
\* covered name matches the target (exactly or by wildcard) or the whole
\* days left are at most renewDays: a matching certificate with exactly
\* renewDays days left (up to 24 * (renewDays + 1) hours, exclusive) needs
\* renewal, one with renewDays + 1 days left does not.
C21_NeedRenewIff ==
    needRenewObs # <<>> =>
       LET o == needRenewObs[1]
           h == o.probe.expiry.hoursLeft
           covered == \E k \in 1..Len(o.probe.certDomains) :
                         MatchDomain(o.probe.certDomains[k], DomainName(idx))
       IN  o.probe.err = "" =>
             /\ ~o.out.err
             /\ o.out.need <=> (~covered \/ h < 24 * (o.renewDays + 1))
             /\ (covered /\ h >= 24 * o.renewDays
                   /\ h < 24 * (o.renewDays + 1)) => o.out.need
             /\ (covered /\ h >= 24 * (o.renewDays + 1)) => ~o.out.need

C21_Witness ==
    /\ needRenewObs # <<>>
    /\ needRenewObs[1].probe.err = ""
    /\ needRenewObs[1].probe.certDomains = <<(<<"*", "example", "com">>)>>
    /\ needRenewObs[1].renewDays = 30
    /\ needRenewObs[1].probe.expiry.hoursLeft = 743
    /\ needRenewObs[1].out.need
    /\ pc = "loop_head"

\* C22: a wildcard name *.X matches a target that is exactly one label in
\* front of X and does not match a target with two or more labels in
\* front of X: MatchDomain("*.example.com", "api.example.com") is true and
\* MatchDomain("*.example.com", "api.sub.example.com") is false.
C22_WildcardOneLabel ==
    matchObs # <<>> =>
       LET o == matchObs[1]
           c == o.certDomain
           t == o.targetDomain
           X == Tail(c)
       IN  (Len(c) >= 2 /\ c[1] = "*") =>
              /\ (Len(t) = Len(X) + 1 /\ HasDotSuffix(t, X)) => o.out
              /\ (Len(t) >= Len(X) + 2 /\ HasDotSuffix(t, X)) => ~o.out

\* C23: MatchDomain(certName, target) is true if and only if certName
\* equals target, or certName is "*." followed by X and X equals
\* ExtractMainDomain(target).
C23_MatchDomainDefinition ==
    matchObs # <<>> =>
       LET o == matchObs[1]
           c == o.certDomain
           t == o.targetDomain
       IN  o.out <=>
              \/ c = t
              \/ /\ Len(c) >= 2
                 /\ c[1] = "*"
                 /\ SubSeq(c, 2, Len(c)) = ExtractMainDomain(t)

C23_Witness ==
    /\ matchObs # <<>>
    /\ matchObs[1].certDomain = <<"*", "example", "com">>
    /\ matchObs[1].targetDomain = <<"api", "example", "com">>
    /\ matchObs[1].out

\* C24: ExtractMainDomain returns the last two labels of a name with at
\* least two labels and the name itself otherwise, and applying it again
\* changes nothing; ExtractSubDomain(s + "." + main, main) is s, and
\* ExtractSubDomain(full, main) is full when full does not end in
\* "." + main.
C24_MainDomainAndSubLabel ==
    /\ mainObs # <<>> =>
          LET o == mainObs[1]
              n == Len(o.domain)
          IN  /\ n >= 2 => o.out = <<o.domain[n - 1], o.domain[n]>>
              /\ n < 2 => o.out = o.domain
              /\ o.again = o.out
    /\ subObs # <<>> =>
          LET o == subObs[1]
              f == o.fullRecord
              \* the strings s with f = s + "." + main, as prefixes of f
              Front == {SubSeq(f, 1, n) : n \in 1..(Len(f) - 1)}
          IN  /\ \A s \in Front : f = s \o o.mainDomain => o.out = s
              /\ (\A s \in Front : f # s \o o.mainDomain) => o.out = f

C24_Witness ==
    /\ subObs # <<>>
    /\ subObs[1].fullRecord = <<"_dnsauth", "www", "example", "com">>
    /\ subObs[1].mainDomain = <<"example", "com">>
    /\ subObs[1].out = <<"_dnsauth", "www">>

\* C25: a post-hook failure is never fatal: when a certificate was saved
\* and the post-hook command fails, ProcessDomain returns nil, and the last
\* storage call of the run is the successful save: nothing is called after
\* it but the hook.
C25_HookFailureNotFatal ==
    (/\ mode = "domain"
     /\ pc = "done"
     /\ calls # <<>>
     /\ calls[Len(calls)] = Call("post", FALSE)) =>
        /\ retErr = Nil
        /\ \E k \in 1..(Len(calls) - 1) :
              /\ calls[k] = Call("save", TRUE)
              /\ \A j \in (k + 1)..Len(calls) : calls[j].op = "post"

C25_Witness ==
    /\ mode = "domain"
    /\ pc = "done"
    /\ calls # <<>>
    /\ calls[Len(calls)] = Call("post", FALSE)
    /\ retErr = Nil
    /\ Len(calls) >= 2
    /\ calls[Len(calls) - 1] = Call("save", TRUE)

\* C26: every persistence failure is surfaced: when SaveCertificate fails
\* during ProcessDomain (reuse path or issuance path) or during
\* ContinueOrder, the call returns an error.
C26_SaveFailureSurfaced ==
    (/\ mode \in {"domain", "resume"}
     /\ pc = "done"
     /\ \E k \in 1..Len(calls) : calls[k] = Call("save", FALSE)) =>
        retErr.kind \notin {"nil", "none"}

\* The zone z holds at most one record per (label, type).
NoDuplicate(z) ==
    \A a \in 1..Len(z), b \in 1..Len(z) :
       (z[a].RR = z[b].RR /\ z[a].Type = z[b].Type) => a = b

\* C27: AddRecord never duplicates: a call of AddRecord, also one whose
\* lookup of the existing record failed, on a zone that holds at most one
\* record per (label, type) leaves such a zone, so that any sequence of
\* AddRecord calls does.
C27_NoDuplicateRecord ==
    [][(NoDuplicate(zone) /\ addObs' # <<>> /\ zone' # zone) =>
          NoDuplicate(zone')]_vars

\* The four statuses the orchestrator's switch knows (manager.go:190-226).
CanonicalStatuses == {"domain_verify", "process", "certificate", "failed"}

\* C28: every status an adapter's GetCertificateStatus returns is one of
\* domain_verify, process, certificate, failed, whatever native status the
\* vendor reports.
C28_CanonicalStatus ==
    (statusObs # <<>> /\ ~statusObs[1].err /\ ~statusObs[1].panic) =>
        statusObs[1].Status \in CanonicalStatuses

\* C29: after SaveCertificate(domain, cert) returned nil, GetCertPath,
\* GetKeyPath and GetFullchainPath of that domain each name a file written
\* by that save, the full-chain file holding the chain or, when the chain
\* is absent, the leaf certificate.
C29_PathsResolveAfterSave ==
    (saveObs # <<>> /\ saveObs[1].err = "") =>
       LET o == saveObs[1]
           byThisSave(path) == files[path].exists /\ files[path].by = o.n
       IN  /\ byThisSave(GetCertPath(o.domain))
           /\ byThisSave(GetKeyPath(o.domain))
           /\ byThisSave(GetFullchainPath(o.domain))
           /\ files[GetCertPath(o.domain)].content = o.cert.Certificate
           /\ files[GetFullchainPath(o.domain)].content =
                 IF o.cert.Chain = "" THEN o.cert.Certificate
                 ELSE o.cert.Chain

\* C30: the orchestrator touches DNS only to satisfy a challenge: the only
\* DNS provider call ProcessDomain and ContinueOrder make is AddRecord, made
\* by the loop for the domain being processed with the label, type and
\* value the poll of the same iteration returned for the current order; no
\* record is deleted or listed, and no DNS call is made once the loop is
\* left, so the validation record stays.
C30_DnsOnlyForChallenge ==
    /\ (dnsCall # <<>>) <=> (dnsAct # "none")
    /\ dnsCall # <<>> =>
          /\ pc = "loop_sleep"
          /\ orderID # NoOrder
          /\ ~lastPoll.err
          /\ lastPoll.Status = "domain_verify"
          /\ lastPoll.RecordDomain # ""
          /\ lastPoll.RecordValue # ""
          /\ dnsCall[1] = [op |-> "AddRecord", domain |-> Domains[idx],
                           rr |-> lastPoll.RecordDomain,
                           Type |-> lastPoll.RecordType,
                           Value |-> lastPoll.RecordValue]
    /\ pc \notin LoopPcs => dnsCall = <<>>

C30_Witness ==
    /\ mode = "resume"
    /\ pc = "loop_sleep"
    /\ dnsAct = "upsert_ok"
    /\ dnsCall # <<>>
    /\ dnsCall[1].rr = "B"
    /\ dnsCall[1].Value = "v2"
    /\ okLabel = "B"
    /\ i > 0

\* C31: FindValidCertificate returns a listed certificate only if it
\* covers the domain (primary domain equal to the domain or to
\* "*." + ExtractMainDomain(domain), or the domain among the alternate
\* names) and has strictly more than minDays whole days left (at least
\* 24 * (minDays + 1) hours); it returns the first such certificate in list
\* order, and nil when none qualifies.
C31_FindReusable ==
    (findObs # <<>> /\ ~findObs[1].err) =>
       LET o == findObs[1]
           d == o.domain
           n == Len(d)
           main == IF n >= 2 THEN <<d[n - 1], d[n]>> ELSE d
           qualifies(k) ==
              /\ \/ o.certs[k].Domain = d
                 \/ o.certs[k].Domain = <<"*">> \o main
                 \/ \E j \in 1..Len(o.certs[k].Sans) :
                       o.certs[k].Sans[j] = d
              /\ o.certs[k].hoursLeft >= 24 * (o.minDays + 1)
       IN  /\ o.found \in 0..Len(o.certs)
           /\ o.found # 0 =>
                 /\ qualifies(o.found)
                 /\ \A k \in 1..(o.found - 1) : ~qualifies(k)
           /\ o.found = 0 => \A k \in 1..Len(o.certs) : ~qualifies(k)

C31_Witness ==
    /\ findObs # <<>>
    /\ ~findObs[1].err
    /\ findObs[1].minDays = 1
    /\ findObs[1].found = 2
    /\ findObs[1].certs[1].Domain = <<"*", "example", "com">>
    /\ findObs[1].certs[1].hoursLeft = 47
    /\ findObs[1].certs[2].hoursLeft = 48

\* A poll result that hist entry e stands for.
PollOf(e) ==
    IF e.st = "error"
    THEN PollErr
    ELSE IF e.label = ""
    THEN PollOk(e.st, "", "", "")
    ELSE PollOk(e.st, e.label, "TXT", "v1")

\* manager.go:169-231: the polling loop of an uninterrupted run fed the
\* polls h[k], h[k + 1], ..., each AddRecord it makes failing exactly where
\* h records a failed one: the DNS actions it takes, the result it returns
\* ("none": still polling) and the number of polls it has used.
RECURSIVE LoopReplay(_, _, _, _, _)
LoopReplay(h, k, cErr, added, last) ==
    IF k > Len(h)
    THEN [ret |-> "none", used |-> Len(h), acts |-> <<>>]
    ELSE LET b == Body(cErr, added, last, PollOf(h[k]),
                       h[k].act # "upsert_fail")
         IN  IF b.ret # "none"
             THEN [ret |-> b.ret, used |-> k, acts |-> <<b.act>>]
             ELSE LET rest == LoopReplay(h, k + 1, b.cErr, b.added, b.last)
                  IN  [rest EXCEPT !.acts = <<b.act>> \o @]

\* How the polling of a finished ContinueOrder ended, in the loop's terms:
\* "poll" (aborted on poll errors), "nil" (certificate), "failed",
\* "timeout" or "ctx".
ResumeOutcome ==
    IF retErr.kind = "status" THEN "poll"
    ELSE IF hist # <<>> /\ hist[1].st = "certificate" THEN "nil"
    ELSE waitErr.kind

\* C32: for every sequence of poll results, a finished ContinueOrder has
\* made the same AddRecord calls and reached the same terminal outcome as
\* the polling loop of an uninterrupted run fed the same sequence (no
\* cancellation, polls fully logged).
C32_ResumeEqualsLoop ==
    (mode = "resume" /\ pc = "done" /\ histOn /\ hist # <<>> /\ ~cancelled) =>
       LET rp == LoopReplay(hist, 1, 0, FALSE, "")
       IN  /\ rp.used = Len(hist)
           /\ rp.acts = [k \in 1..Len(hist) |-> hist[k].act]
           /\ rp.ret = ResumeOutcome

\* C33: whenever the loop backs off after a domain_verify poll with
\* challenge data whose DNS step did not fail, the last successful
\* AddRecord of this loop carried the label, type and value of that poll,
\* also when only the value changed between polls.
C33_RecordFollowsChallenge ==
    (/\ pc = "loop_sleep"
     /\ ~lastPoll.err
     /\ lastPoll.Status = "domain_verify"
     /\ HasChallenge(lastPoll)
     /\ dnsAct # "upsert_fail") =>
       /\ okLabel = lastPoll.RecordDomain
       /\ okValue = <<lastPoll.RecordType, lastPoll.RecordValue>>

\* C34: in a batch Run no order is created by ApplyCertificate, and so no
\* validation loop is entered, for a domain that was handed to
\* ProcessDomain after ctx had been cancelled.
C34_NoIssuanceAfterCancel ==
    (mode = "run" /\ cancelAt # <<>> /\ Len(processed) > cancelAt[1]) =>
       pc \notin LoopPcs \cup {"loop_ret"}

\* ContinueOrder has returned because of failed polls.
ResumePollAbort ==
    /\ mode = "resume"
    /\ pc = "done"
    /\ \/ retErr.kind = "status"
       \/ retErr.kind = "wait" /\ waitErr.kind = "poll"

\* C35: ContinueOrder ends because of poll errors only at the third
\* consecutive failed GetCertificateStatus: its last three polls failed,
\* also when the very first poll of ContinueOrder fails.
C35_ResumePollErrorTransient ==
    (ResumePollAbort /\ histOn) =>
       /\ Len(hist) >= MaxConsecutiveErrors
       /\ \A k \in (Len(hist) - MaxConsecutiveErrors + 1)..Len(hist) :
             hist[k].st = "error"

\* The step appends a DownloadCertificate call to calls.
DownloadCalled ==
    /\ CallsObserved
    /\ \E k \in (Len(calls) + 1)..Len(calls') : calls'[k].op = "download"

\* A poll of the order has just returned certificate: the loop returned nil
\* on it, or it is the poll ContinueOrder makes before the loop.
CertificatePolled ==
    \/ /\ pc = "loop_ret"
       /\ waitErr.kind = "nil"
       /\ ~lastPoll.err
       /\ lastPoll.Status = "certificate"
    \/ /\ pc = "start"
       /\ mode = "resume"
       /\ hist' # <<>>
       /\ hist'[1].st = "certificate"

\* Every SaveCertificate call follows a successful DownloadCertificate or
\* GetCertificateDetail, whose certificate it is given.
SaveFollowsFetch ==
    \A k \in 1..Len(calls) :
       calls[k].op = "save" =>
          /\ k > 1
          /\ calls[k - 1].op \in {"download", "detail"}
          /\ calls[k - 1].ok

\* C36: DownloadCertificate is called only right after a
\* GetCertificateStatus of the order returned certificate, in
\* ProcessDomain and in ContinueOrder, never after the loop ended by
\* failed, poll errors, timeout or cancellation; and SaveCertificate is
\* called only with the certificate a successful fetch returned.
C36_FetchOnlyAfterCertificate ==
    /\ [][DownloadCalled => CertificatePolled]_vars
    /\ []SaveFollowsFetch

C36_Witness ==
    /\ mode = "domain"
    /\ pc = "pd_post"
    /\ Len(calls) = 5
    /\ calls[3] = Call("apply", TRUE)
    /\ calls[4] = Call("download", TRUE)
    /\ calls[5] = Call("save", TRUE)

\* Positions of the RunPostCommand calls in calls.
PostCalls == {k \in 1..Len(calls) : calls[k].op = "post"}

\* C37: in ProcessDomain the post-hook is run at most once, only after a
\* SaveCertificate of this run succeeded (reused or newly issued
\* certificate) and only with a non-empty command, which is the per-domain
\* command when one is configured and the global one otherwise; a run that
\* saved nothing never runs the hook.
C37_PostHookOnceAfterSave ==
    mode = "domain" =>
       /\ Cardinality(PostCalls) <= 1
       /\ hookObs # <<>> <=> PostCalls # {}
       /\ \A k \in PostCalls :
             /\ \E j \in 1..(k - 1) : calls[j] = Call("save", TRUE)
             /\ hookObs[1].command # ""
             /\ hookObs[1].command =
                   IF hookObs[1].domainCmd # ""
                   THEN hookObs[1].domainCmd
                   ELSE hookObs[1].globalCmd

C37_Witness ==
    /\ mode = "domain"
    /\ pc = "done"
    /\ calls = <<Call("find", TRUE), Call("detail", TRUE),
                 Call("save", TRUE), Call("post", TRUE)>>
    /\ hookObs # <<>>
    /\ hookObs[1].domainCmd = "cmd"
    /\ hookObs[1].globalCmd = "reload"
    /\ hookObs[1].command = "cmd"

\* The step is the reuse check of ProcessDomain and its last call,
\* FindValidCertificate or GetCertificateDetail, failed.
ReuseCheckFailed ==
    /\ pc = "pd_reuse"
    /\ CallsObserved
    /\ calls' # <<>>
    /\ calls'[Len(calls')] \in {Call("find", FALSE), Call("detail", FALSE)}

\* C38: when FindValidCertificate fails, or GetCertificateDetail of the
\* found certificate fails, ProcessDomain returns no error at that point:
\* it goes on to the renewal decision with nothing downloaded, as when no
\* certificate was found, and NeedRenew is the next call it makes.
C38_ReuseFailureNotFatal ==
    /\ [][ReuseCheckFailed =>
            /\ pc' = "pd_renew"
            /\ ~certDownloaded'
            /\ retErr' = NoErr]_vars
    /\ [](\A k \in 1..Len(calls) :
            calls[k] \in {Call("find", FALSE), Call("detail", FALSE)} =>
               (pc = "pd_renew" /\ k = Len(calls))
               \/ (k < Len(calls) /\ calls[k + 1].op = "needrenew"))

C38_Witness ==
    /\ mode = "domain"
    /\ pc = "loop_head"
    /\ calls = <<Call("find", TRUE), Call("detail", FALSE),
                 Call("needrenew", TRUE), Call("apply", TRUE)>>

\* A get of worker w fails in this step: the switch or the constructor
\* returns an error and the request ends.
GetFailsNow(w) == worker[w].pc = "switch" /\ worker'[w] = Idle

\* C39: a failed get (unknown name, provider not configured, constructor
\* error) leaves both caches unchanged, so the key stays absent and a later
\* get for it calls the constructor again; and a step of a get for one kind
\* never changes the cache of the other kind.
C39_FailedGetLeavesCache ==
    [][\A w \in Workers :
         /\ GetFailsNow(w) => UNCHANGED <<certProviders, dnsProviders>>
         /\ (worker'[w] # worker[w] /\ worker[w].kind = "cert") =>
               UNCHANGED dnsProviders
         /\ (worker'[w] # worker[w] /\ worker[w].kind = "dns") =>
               UNCHANGED certProviders]_vars

\* The first request's certificate get failed in the constructor (its DNS
\* get was never made) and the second request's get for the same key has
\* constructed and cached the provider.
C39_Witness ==
    /\ mode = "registry"
    /\ domainProviders = {"aliyun"}
    /\ requests = 2
    /\ <<"cert", "aliyun">> \in attempted
    /\ <<"dns", "aliyun">> \notin attempted
    /\ built[<<"cert", "aliyun">>] = 1
    /\ certProviders["aliyun"] = Instance("cert", "aliyun", 1)
    /\ worker[1].kind = "dns"
    /\ worker[1].pc = "lookup"

\* C40: one GetCertificateStatus of the aliyun adapter makes at most three
\* vendor requests, stops at the first that succeeds (every earlier one
\* failed and was followed by its sleep) and returns an error only when
\* all three failed (as it panics only then); three consecutive failed
\* polls, at which the loop gives up, are therefore up to nine failed
\* vendor requests.
C40_AliyunRetryBudget ==
    /\ MaxConsecutiveErrors * AliyunRetries = 9
    /\ (statusObs # <<>> /\ statusObs[1].vendor = "aliyun") =>
          LET o == statusObs[1]
              failures == CHOOSE n \in 0..o.attempts :
                            o.slept = 5 * ((n * (n + 1)) \div 2)
          IN  /\ o.attempts \in 1..3
              /\ \E n \in 0..o.attempts : o.slept = 5 * ((n * (n + 1)) \div 2)
              /\ (~o.err /\ ~o.panic) => failures = o.attempts - 1
              /\ (o.err \/ o.panic) => (o.attempts = 3 /\ failures = 3)

C40_Witness ==
    /\ statusObs # <<>>
    /\ statusObs[1].vendor = "aliyun"
    /\ ~statusObs[1].err
    /\ statusObs[1].attempts = 2
    /\ statusObs[1].slept = 5

\* The instances returned so far for key k.
ReturnedFor(k) == {r[3] : r \in {q \in returned : q[1] = k[1] /\ q[2] = k[2]}}

\* The caller holds a constructed instance of key k it has not stored yet.
PendingStore(k) ==
    \E w \in Workers :
       worker[w].pc = "store" /\ worker[w].kind = k[1] /\ NameOf(w) = k[2]

\* C17: with sequential get calls, a key is constructed successfully at
\* most once; every get that succeeds returns the instance the cache holds
\* for the key, so all of them return the same one; a cached instance is
\* never removed or replaced; and a get that finds the key cached returns
\* that instance without constructing.
C17_OnePerKey ==
    mode = "registry" =>
       /\ \A k \in Keys :
            /\ built[k] <= 1
            /\ Cardinality(ReturnedFor(k)) <= 1
            /\ built[k] = 1 =>
                  \/ CacheOf(k[1])[k[2]] = Instance(k[1], k[2], 1)
                  \/ PendingStore(k)
            /\ CacheOf(k[1])[k[2]] # NoInst => built[k] = 1
       /\ \A r \in returned : CacheOf(r[1])[r[2]] = r[3]

C17_CachedOnce ==
    /\ []C17_OnePerKey
    /\ [][mode = "registry" =>
            /\ \A n \in ProviderNames :
                 /\ certProviders[n] # NoInst
                       => certProviders'[n] = certProviders[n]
                 /\ dnsProviders[n] # NoInst
                       => dnsProviders'[n] = dnsProviders[n]
            /\ \A w \in Workers :
                 (/\ worker[w].pc = "lookup"
                  /\ worker'[w] # worker[w]
                  /\ CacheOf(worker[w].kind)[NameOf(w)] # NoInst)
                 => /\ built' = built
                    /\ attempted' = attempted
                    /\ <<worker[w].kind, NameOf(w),
                         CacheOf(worker[w].kind)[NameOf(w)]>> \in returned'
         ]_vars

\* The second request for aliyun is served from both caches.
C17_Witness ==
    /\ mode = "registry"
    /\ domainProviders = {"aliyun"}
    /\ requests = 2
    /\ called = {<<"cert", "aliyun">>}
    /\ worker[1].pc = "call"
    /\ built[<<"cert", "aliyun">>] = 1
    /\ built[<<"dns", "aliyun">>] = 1

\* C19: a constructor is invoked, an instance is returned and a provider
\* call is made only for a known vendor whose credentials are complete, in
\* a batch run and in a resume.
C19_ConfigErrorBeforeConstruction ==
    mode = "registry" =>
       \A k \in attempted \cup called \cup {<<r[1], r[2]>> : r \in returned} :
          /\ k[2] \in Vendors
          /\ providers[k[2]] = "complete"

====
